---- MODULE Spec2Model ----
(***************************************************************************)
(* A model of the resource operations of gh_util (src/src/gh_util/         *)
(* functions.py) against a remote that holds issues, labels, directory     *)
(* contents and git tag objects/refs.                                      *)
(*                                                                         *)
(* Each resource operation is an async function; every `await client...`   *)
(* is a suspension point, so an operation is modelled as a sequence of     *)
(* steps, one per request, with a program counter per operation family.    *)
(* A request may be answered with an error, which GHClient.request raises  *)
(* (client.py:53-87) and which then propagates out of the operation unless *)
(* the operation catches it.                                               *)
(*                                                                         *)
(* The module holds one specification per operation family:                *)
(*   SpecLabels     add_labels_to_issue / update_labels_on_issue           *)
(*   SpecIssues     fetch_repo_issues                                      *)
(*   SpecDirectory  fetch_directory_structure                              *)
(*   SpecTag        create_repo_tag                                        *)
(*   SpecPulls      open_pull_request                                      *)
(*   SpecCommits    create_commit                                          *)
(*   SpecFiles      read_file and GHClient.request                         *)
(*   SpecParse      parse_as                                               *)
(*   SpecLatest     fetch_latest_repo_tag / fetch_latest_n_repo_tags       *)
(*   SpecReleases   get_prs_between_releases                               *)
(*   SpecContributors  fetch_contributor_data                              *)
(*   SpecProcess    run_process / open_process (utilities/process.py)      *)
(*   SpecHandler    EventLogHandler (examples/on_event/handlers.py)        *)
(***************************************************************************)
EXTENDS Integers, Sequences, FiniteSets

\* ---------------------------------------------------------------- bounds
\* Number of distinct label names the remote knows.
NumLabels == 2
\* Largest number of items the remote lists for the requested state.
MaxRemote == 4
\* Largest n and per_page a caller of fetch_repo_issues passes.
MaxN == 3
MaxPerPage == 3
\* Deepest nesting of the remote directory tree, and largest `levels` passed.
MaxDepth == 3
MaxLevels == 2
\* Number of tag names and of commits callers of create_repo_tag use, and the
\* number of tag objects the remote comes to hold.
NumTagNames == 2
NumCommits == 2
MaxTagObjects == 4
\* Number of head branches callers of open_pull_request use, and the longest
\* list of errors in an error body.
NumHeads == 2
MaxErrors == 2
\* Largest number of commits the remote comes to hold.
MaxCommits == 3
\* Number of distinct non-empty file texts.
NumTexts == 2
\* Number of distinct valid elements, and longest list, in the data given to
\* parse_as.
NumRecords == 2
MaxListLen == 2
\* Number of tag names the remote's tags are drawn from.
NumRefNames == 3
\* Number of pull requests merge commits refer to, and largest number of
\* commits between two releases.
NumPulls == 2
MaxCompared == 3
\* Number of users acting in the events feed, and the latest time, in days.
NumUsers == 2
MaxTime == 3
\* Number of chunks a subprocess writes, and the capacity of a pipe in chunks.
MaxWrites == 3
PipeCap == 1
\* Number of emit calls, the largest message and the largest max_buffer_size,
\* both in bytes.
MaxEmits == 3
MaxMessageSize == 2
MaxBufferSize == 2
\* settings.py:25  timedelta(days=1), in days.
Day == 1

Min(a, b) == IF a < b THEN a ELSE b

\* ------------------------------------------------------------- variables
VARIABLES
    \* --- labels of one issue, and the label operations on it
    remoteLabels,    \* names of the labels the remote holds on the issue
    lpc,             \* position of the running label operation ("idle": none)
    lop,             \* top-level operation running or last run: "none", "add", "update"
    new_labels,      \* its argument: new_labels (add) / labels (update)
    current_labels,  \* update: labels fetched from the issue and not yet iterated
    names,           \* add: label names fetched by the GET
    llog,            \* requests sent by the operation, in order
    lret,            \* outcome: "none" (running/never run), "True", "False", "raised"
    lstart,          \* remote label set when the operation was called
    lintf,           \* another writer changed the labels since the operation was called
    lprev,           \* the operation completed before this one
    lclients         \* number of GHClient instances opened and not yet closed

labelVars == <<remoteLabels, lpc, lop, new_labels, current_labels, names, llog,
               lret, lstart, lintf, lprev, lclients>>

VARIABLES
    \* --- the issues endpoint, and fetch_repo_issues
    remoteItems,     \* the remote's items for the requested state, in list order:
                     \* remoteItems[i] is TRUE iff item i carries a pull_request marker
    ipc,             \* "idle", "loop" (in the while loop), "done" (returned), "raised"
    n,               \* argument n
    per_page,        \* argument per_page
    fetch_type,      \* argument fetch_type
    page,            \* local page
    issues,          \* local issues: the items accumulated (by index in remoteItems)
    irequests,       \* number of page requests sent by the call
    iskipped         \* items passed over by the fetch_type filter ("Skipped item")

issueVars == <<remoteItems, ipc, n, per_page, fetch_type, page, issues, irequests,
               iskipped>>

VARIABLES
    \* --- the contents endpoint, and fetch_directory_structure
    remoteTree,      \* the remote's entries under directory_path: records
                     \* [path, type], path the sequence of entry names from the root
    dpc,             \* "idle", "run", "done" (returned), "raised"
    levels,          \* argument levels
    pattern,         \* argument pattern; <<>> stands for None and ""
    dstack,          \* the active traverse_directory calls, outermost first
    output,          \* the entries rendered so far, in order
    drequests        \* the contents requests sent so far, in order

dirVars == <<remoteTree, dpc, levels, pattern, dstack, output, drequests>>

VARIABLES
    \* --- git tag objects and tag refs, and create_repo_tag
    remoteRefs,      \* refs/tags/<name> on the remote: the tag object's sha, 0 if absent
    tagObjects,      \* number of annotated tag objects the remote holds; the
                     \* k-th object created has sha k
    tpc,             \* "idle", "get_user", "post_tag", "post_ref"
    tag_name,        \* argument tag_name
    commit_sha,      \* argument commit_sha
    response,        \* local response: the answer to POST /git/tags
    tret,            \* outcome of the call: [kind: "none" | "tag" | "raised", ...]
    tlogged,         \* what the call logged last: "none", "Tag created", "Tag already exists"
    refOutcome,      \* how the ref-creation request of the call was answered
    tfault,          \* a request of the call was answered with an error other
                     \* than the rejection of an existing ref
    tprev            \* the call completed before this one

tagVars == <<remoteRefs, tagObjects, tpc, tag_name, commit_sha, response, tret,
             tlogged, refOutcome, tfault, tprev>>

VARIABLES
    \* --- the pulls endpoint, and open_pull_request
    remotePulls,        \* the <<head, base>> pairs that have an open pull request
    ppc,                \* "idle", "check" (before the GET), "post" (before the POST)
    head,               \* argument head
    base,               \* argument base
    check_for_existing, \* argument check_for_existing
    pstart,             \* an open pull request for <<head, base>> existed at the call
    pgets,              \* GET requests sent by the call
    pposts,             \* POST requests sent by the call
    prejection,         \* the error answer to the call's POST, if it got one
    pret                \* outcome of the call: [kind, head, base, created]

pullVars == <<remotePulls, ppc, head, base, check_for_existing, pstart, pgets,
              pposts, prejection, pret>>

VARIABLES
    \* --- git commits and branch refs, and create_commit
    remoteBranches,  \* refs/heads/<name> on the remote: the tip commit's sha, 0 if absent
    parents,         \* the remote's commits: parents[c] is the parent of commit c, 0 if none
    cpc,             \* "idle", "default", "base", "tree", "commit", "check", "create", "update"
    branch,          \* argument branch
    base_branch,     \* local base_branch: the argument ("" for None), then what line 487 assigns
    base_given,      \* the call passed a base_branch
    create_branch,   \* argument create_branch
    base_ref_read,   \* the branch name in the ref the call read the base tip from
    base_tree_sha,   \* local base_tree_sha: the sha read from the base ref
    new_commit_sha,  \* local new_commit_sha
    cwrites,         \* the writes to refs/heads/<branch> the call got accepted, in order
    cstart,          \* remoteBranches[branch] when the call was made
    cret             \* outcome of the call: "none", "commit", "raised"

commitVars == <<remoteBranches, parents, cpc, branch, base_branch, base_given,
                create_branch, base_ref_read, base_tree_sha, new_commit_sha, cwrites,
                cstart, cret>>

VARIABLES
    \* --- raw file contents, and read_file through GHClient.request
    remoteFiles,     \* the text of the file at `path` on each branch that has it
    rpc,             \* "idle", "get" (before the request)
    rbranch,         \* local branch: the argument, or the default base
    rstatus,         \* status of the answer to the call's request, 0 before it
    rjson,           \* the body of that answer is valid JSON
    routcome,        \* what GHClient.request did with the answer
    rret             \* outcome of read_file: [kind, text]

fileVars == <<remoteFiles, rpc, rbranch, rstatus, rjson, routcome, rret>>

VARIABLES
    \* --- parse_as
    type_,           \* argument type_: "list" (list[T]), "set" (set[T]) or "record" (T)
    data,            \* argument data
    parsed           \* what the call gave: [kind |-> "none"] before it

parseVars == <<type_, data, parsed>>

VARIABLES
    \* --- the tag refs listing, and fetch_latest_repo_tag
    remoteTagRefs,   \* the names of the remote's tags in order of creation; a
                     \* smaller number is a name that sorts earlier
    tag_matching,    \* the tag names that the pattern of the call matches
    query_honoured,  \* the remote interprets the sort, order and q parameters
    tag_pattern,     \* the call passes a pattern
    ltpc,            \* "idle", "get" (before the request)
    ltret,           \* outcome of the call: [kind, name]
    tag_count,       \* argument n of fetch_latest_n_repo_tags
    ltrefs           \* the refs fetch_latest_n_repo_tags returned

latestVars == <<remoteTagRefs, tag_matching, query_honoured, tag_pattern, ltpc, ltret,
                tag_count, ltrefs>>

VARIABLES
    \* --- the compare endpoint, and get_prs_between_releases
    remoteCompare,   \* the messages of the commits between base and head, in order
    gpc,             \* "idle", "compare", "fetch" (in the second loop), "done", "raised"
    pr_numbers,      \* local pr_numbers: the numbers not yet iterated by the second loop
    prs,             \* local prs: the pull requests fetched, by number, in order
    grequests        \* requests sent by the call

releaseVars == <<remoteCompare, gpc, pr_numbers, prs, grequests>>

VARIABLES
    \* --- the events feed, the clock, and fetch_contributor_data
    clock,           \* the current time, in days
    default_since,   \* settings.default_since, set when the settings module is loaded
    events,          \* the feed the remote answers the call's GET with, in order
    since,           \* argument since (None: NoSince)
    excluded_users,  \* argument excluded_users
    called_at,       \* the time of the call, NoSince before it
    contributors_activity  \* what the call returned: the buckets per actor

contribVars == <<clock, default_since, events, since, excluded_users, called_at,
                 contributors_activity>>

VARIABLES
    \* --- a subprocess and run_process / open_process
    stream_output,    \* argument stream_output of run_process, as a truth value
    unsupported_sink, \* whether the stderr sink is of a type stream_text rejects
    child_todo,       \* the writes the subprocess still has to do, by stream
    child_alive,      \* whether the subprocess runs
    pipe,             \* number of chunks buffered in the pipe of each stream
    drain,            \* position of the stream_text task of each stream
    xpc,              \* position of run_process
    body_left,        \* how the body of open_process was left
    terminate_sent,   \* whether process.terminate() was called
    closed            \* whether the resources of the process were closed

processVars == <<stream_output, unsupported_sink, child_todo, child_alive, pipe,
                 drain, xpc, body_left, terminate_sent, closed>>

VARIABLES
    \* --- EventLogHandler (examples/on_event/handlers.py) and its log directory
    max_buffer_size, \* constructor argument
    buffer,          \* self.buffer: the formatted messages not yet written
    buffer_size,     \* self.buffer_size
    counter,         \* self.counter
    writes,          \* the files written to log_dir, in order: [k, content]
    emitted,         \* the formatted messages of the emit calls, in order
    handler_closed   \* close() was called

handlerVars == <<max_buffer_size, buffer, buffer_size, counter, writes, emitted,
                 handler_closed>>

vars == <<labelVars, issueVars, dirVars, tagVars, pullVars, commitVars, fileVars, parseVars, latestVars, releaseVars, contribVars, processVars, handlerVars>>

otherThanLabels == <<issueVars, dirVars, tagVars, pullVars, commitVars, fileVars, parseVars, latestVars, releaseVars, contribVars, processVars, handlerVars>>
otherThanIssues == <<labelVars, dirVars, tagVars, pullVars, commitVars, fileVars, parseVars, latestVars, releaseVars, contribVars, processVars, handlerVars>>
otherThanDirectory == <<labelVars, issueVars, tagVars, pullVars, commitVars, fileVars, parseVars, latestVars, releaseVars, contribVars, processVars, handlerVars>>
otherThanTag == <<labelVars, issueVars, dirVars, pullVars, commitVars, fileVars, parseVars, latestVars, releaseVars, contribVars, processVars, handlerVars>>
otherThanPulls == <<labelVars, issueVars, dirVars, tagVars, commitVars, fileVars, parseVars, latestVars, releaseVars, contribVars, processVars, handlerVars>>
otherThanCommits == <<labelVars, issueVars, dirVars, tagVars, pullVars, fileVars, parseVars, latestVars, releaseVars, contribVars, processVars, handlerVars>>
otherThanFiles == <<labelVars, issueVars, dirVars, tagVars, pullVars, commitVars, parseVars, latestVars, releaseVars, contribVars, processVars, handlerVars>>
otherThanParse == <<labelVars, issueVars, dirVars, tagVars, pullVars, commitVars, fileVars, latestVars, releaseVars, contribVars, processVars, handlerVars>>
otherThanLatest == <<labelVars, issueVars, dirVars, tagVars, pullVars, commitVars, fileVars, parseVars, releaseVars, contribVars, processVars, handlerVars>>
otherThanReleases == <<labelVars, issueVars, dirVars, tagVars, pullVars, commitVars, fileVars, parseVars, latestVars, contribVars, processVars, handlerVars>>
otherThanContributors == <<labelVars, issueVars, dirVars, tagVars, pullVars, commitVars, fileVars, parseVars, latestVars, releaseVars, processVars, handlerVars>>
otherThanProcess == <<labelVars, issueVars, dirVars, tagVars, pullVars, commitVars, fileVars, parseVars, latestVars, releaseVars, contribVars, handlerVars>>
otherThanHandler == <<labelVars, issueVars, dirVars, tagVars, pullVars, commitVars, fileVars, parseVars, latestVars, releaseVars, contribVars, processVars>>

\* ------------------------------------------------------------------ labels
Labels == 1..NumLabels

NoCall == [op |-> "none", arg |-> {}, ret |-> "none", intf |-> FALSE]

Req(method, target, body) == [method |-> method, target |-> target, body |-> body]

\* Variant of labels_to_add that ignores the names already on the issue.
labels_to_add_AddsAll(nl, nm) == nl

\* functions.py:228  labels_to_add := new_labels - names
labels_to_add(nl, nm) == nl \ nm

\* Variant of label_not_relevant that keeps every label.
label_not_relevant_Never(name, labels) == FALSE

\* functions.py:280  if label.name not in labels
label_not_relevant(name, labels) == name \notin labels

LabelsIdle ==
    /\ lpc = "idle"
    /\ lop = "none"
    /\ new_labels = {}
    /\ current_labels = {}
    /\ names = {}
    /\ llog = <<>>
    /\ lret = "none"
    /\ lstart = {}
    /\ lintf = FALSE
    /\ lprev = NoCall
    /\ lclients = 0

NoLabels == remoteLabels = {} /\ LabelsIdle

InitLabels ==
    /\ remoteLabels \in SUBSET Labels
    /\ LabelsIdle

\* Variant of clients_after_exit for a client that is closed by a statement
\* at the end of the block instead of by the `async with`.
clients_after_exit_LeakOnRaise(open, r) == IF r = "raised" THEN open ELSE open - 1

\* functions.py:64, 219, 277  leaving an `async with GHClient() as client`
\* block closes that client, whether the block returns or raises.
clients_after_exit(open, r) == open - 1

\* The caller invokes an operation; the call before it is remembered. The
\* operation opens a client first thing: add_labels_to_issue at line 219,
\* update_labels_on_issue inside fetch_repo_issue at line 64.
StartLabelOp(op, arg, pc) ==
    /\ lpc = "idle"
    /\ lop' = op
    /\ new_labels' = arg
    /\ lpc' = pc
    /\ current_labels' = {}
    /\ names' = {}
    /\ llog' = <<>>
    /\ lret' = "none"
    /\ lstart' = remoteLabels
    /\ lintf' = FALSE
    /\ lprev' = [op |-> lop, arg |-> new_labels, ret |-> lret, intf |-> lintf]
    /\ lclients' = lclients + 1
    /\ UNCHANGED remoteLabels
    /\ UNCHANGED otherThanLabels

\* The running operation ends, returning `r` or raising.
\* update_labels_on_issue returns True whatever add_labels_to_issue returned.
update_returns(r) == "True"

\* Every `async with` block the operation is in is left, innermost first.
EndLabelOp(r) ==
    /\ lpc' = "idle"
    /\ lclients' = IF lclients = 2
                   THEN clients_after_exit(clients_after_exit(lclients, r), r)
                   ELSE clients_after_exit(lclients, r)
    /\ current_labels' = {}
    /\ names' = {}
    /\ lret' = IF r = "raised" THEN "raised"
               ELSE IF lop = "update" THEN update_returns(r) ELSE r

Call_add_labels_to_issue ==
    \E L \in SUBSET Labels : StartLabelOp("add", L, "add_get")

Call_update_labels_on_issue ==
    \E B \in SUBSET Labels : StartLabelOp("update", B, "upd_fetch")

\* functions.py:275-277  current_labels = (await fetch_repo_issue(...)).labels:
\* fetch_repo_issue sends its GET and returns, leaving its `async with`; then
\* update_labels_on_issue opens its own client.
update_fetch_issue ==
    /\ lpc = "upd_fetch"
    /\ llog' = Append(llog, Req("GET", "issue", {}))
    /\ current_labels' = remoteLabels
    /\ lpc' = "upd_loop"
    /\ lclients' = clients_after_exit(lclients, "returned") + 1
    /\ UNCHANGED <<remoteLabels, lop, new_labels, names, lret, lstart, lintf, lprev>>
    /\ UNCHANGED otherThanLabels

\* functions.py:279-283  one DELETE per fetched label that is not in `labels`;
\* labels that stay are passed over without a request.
update_delete_label ==
    /\ lpc = "upd_loop"
    /\ \E l \in current_labels :
         /\ label_not_relevant(l, new_labels)
         /\ llog' = Append(llog, Req("DELETE", "label", {l}))
         /\ remoteLabels' = remoteLabels \ {l}
         /\ current_labels' = current_labels \ {l}
    /\ UNCHANGED <<lpc, lop, new_labels, names, lret, lstart, lintf, lprev, lclients>>
    /\ UNCHANGED otherThanLabels

\* functions.py:285  the loop is over: await add_labels_to_issue(..., labels),
\* which opens its client at line 219.
update_call_add ==
    /\ lpc = "upd_loop"
    /\ \A l \in current_labels : ~label_not_relevant(l, new_labels)
    /\ lpc' = "add_get"
    /\ current_labels' = {}
    /\ lclients' = lclients + 1
    /\ UNCHANGED <<remoteLabels, lop, new_labels, names, llog, lret, lstart, lintf, lprev>>
    /\ UNCHANGED otherThanLabels

\* functions.py:217-228, 241-246  GET the issue's labels, compute the delta;
\* an empty delta returns False without a POST.
add_get_labels ==
    /\ lpc = "add_get"
    /\ llog' = Append(llog, Req("GET", "labels", {}))
    /\ IF labels_to_add(new_labels, remoteLabels) # {}
         THEN /\ lpc' = "add_post"
              /\ names' = remoteLabels
              /\ UNCHANGED <<lret, current_labels, lclients>>
         ELSE EndLabelOp("False")
    /\ UNCHANGED <<remoteLabels, lop, new_labels, lstart, lintf, lprev>>
    /\ UNCHANGED otherThanLabels

\* functions.py:229-239  POST the delta, return True.
add_post_labels ==
    /\ lpc = "add_post"
    /\ llog' = Append(llog, Req("POST", "labels", labels_to_add(new_labels, names)))
    /\ remoteLabels' = remoteLabels \cup labels_to_add(new_labels, names)
    /\ EndLabelOp("True")
    /\ UNCHANGED <<lop, new_labels, lstart, lintf, lprev>>
    /\ UNCHANGED otherThanLabels

\* The request the operation is about to send, when it is about to send one.
NextLabelRequests ==
    CASE lpc = "upd_fetch" -> {Req("GET", "issue", {})}
      [] lpc = "upd_loop"  -> {Req("DELETE", "label", {l}) :
                                 l \in {x \in current_labels :
                                          label_not_relevant(x, new_labels)}}
      [] lpc = "add_get"   -> {Req("GET", "labels", {})}
      [] lpc = "add_post"  -> {Req("POST", "labels", labels_to_add(new_labels, names))}
      [] OTHER             -> {}

\* client.py:53-87  the remote answers a request with a non-2xx status: the
\* request changes nothing, GHClient.request raises, and neither label
\* operation catches it.
label_request_fails ==
    /\ \E r \in NextLabelRequests : llog' = Append(llog, r)
    /\ EndLabelOp("raised")
    /\ UNCHANGED <<remoteLabels, lop, new_labels, lstart, lintf, lprev>>
    /\ UNCHANGED otherThanLabels

\* Somebody else edits the issue's labels between two calls of the caller.
other_label_writer ==
    /\ lpc = "idle"
    /\ ~lintf
    /\ \E S \in SUBSET Labels :
         /\ S # remoteLabels
         /\ remoteLabels' = S
    /\ lintf' = TRUE
    /\ UNCHANGED <<lpc, lop, new_labels, current_labels, names, llog, lret,
                   lstart, lprev, lclients>>
    /\ UNCHANGED otherThanLabels

\* ------------------------------------------------------- fetch_repo_issues
FetchTypes == {"issues", "pulls", "all"}

\* All sequences over S of length at most k.
SeqsUpTo(S, k) == UNION {[1..m -> S] : m \in 0..k}

\* The remote's answer to GET /issues?per_page=pp&page=pg: the pg-th block of
\* pp items of its list, as item indices; empty past the end of the list.
RemotePage(items, pg, pp) ==
    LET first == (pg - 1) * pp + 1
        last  == Min(pg * pp, Len(items))
    IN  IF first > last THEN <<>> ELSE [i \in 1..(last - first + 1) |-> first + i - 1]

\* Variant of more_wanted that leaves the loop one item early.
more_wanted_OffByOne(len, want) == len < want - 1

\* functions.py:120  while len(issues) < n
more_wanted(len, want) == len < want

\* functions.py:125  "per_page": min(n - len(issues), per_page)
per_page_param(want, len, pp) == Min(want - len, pp)

\* Variant of skip_item whose "pulls" branch lacks the `not`.
skip_item_NoNot(ft, is_pull_request) ==
    ft # "all" /\ ((ft = "issues" /\ is_pull_request) \/ (ft = "pulls" /\ is_pull_request))

\* functions.py:133-140  the item is not of the fetch_type asked for
skip_item(ft, is_pull_request) ==
    ft # "all" /\ ((ft = "issues" /\ is_pull_request) \/ (ft = "pulls" /\ ~is_pull_request))

\* functions.py:132-156  for item in new_items: skip or append, break at n.
\* Gives the lists after the loop: [issues, skipped].
RECURSIVE process_items(_, _, _, _, _, _)
process_items(items, new_items, acc, skipped, want, ft) ==
    IF new_items = <<>> THEN [issues |-> acc, skipped |-> skipped]
    ELSE LET item == Head(new_items) IN
         IF skip_item(ft, items[item])
           THEN process_items(items, Tail(new_items), acc, skipped \cup {item}, want, ft)
           ELSE IF Len(acc) + 1 = want
                  THEN [issues |-> Append(acc, item), skipped |-> skipped]
                  ELSE process_items(items, Tail(new_items), Append(acc, item),
                                     skipped, want, ft)

IssuesIdle ==
    /\ ipc = "idle"
    /\ n = 0
    /\ per_page = 1
    /\ fetch_type = "all"
    /\ page = 1
    /\ issues = <<>>
    /\ irequests = 0
    /\ iskipped = {}

NoIssues == remoteItems = <<>> /\ IssuesIdle

InitIssues ==
    /\ remoteItems \in SeqsUpTo(BOOLEAN, MaxRemote)
    /\ IssuesIdle

\* functions.py:78-118  the call: page = 1, issues = []
Call_fetch_repo_issues ==
    /\ ipc \in {"idle", "done", "raised"}
    /\ \E want \in 0..MaxN, pp \in 1..MaxPerPage, ft \in FetchTypes :
         /\ n' = want
         /\ per_page' = pp
         /\ fetch_type' = ft
    /\ page' = 1
    /\ issues' = <<>>
    /\ irequests' = 0
    /\ iskipped' = {}
    /\ ipc' = "loop"
    /\ UNCHANGED remoteItems
    /\ UNCHANGED otherThanIssues

\* functions.py:120-160  one iteration of the while loop: request a page,
\* leave the loop on an empty page, else run the for loop and go to the next
\* page.
fetch_page ==
    /\ ipc = "loop"
    /\ more_wanted(Len(issues), n)
    /\ irequests' = irequests + 1
    /\ LET new_items == RemotePage(remoteItems, page,
                                   per_page_param(n, Len(issues), per_page))
           after == process_items(remoteItems, new_items, issues, iskipped, n,
                                  fetch_type)
       IN  IF new_items = <<>>
             THEN /\ ipc' = "done"
                  /\ UNCHANGED <<page, issues, iskipped>>
             ELSE /\ issues' = after.issues
                  /\ iskipped' = after.skipped
                  /\ page' = page + 1
                  /\ ipc' = IF fetch_type # "all" /\ Len(new_items) = 0
                              THEN "done" ELSE "loop"
    /\ UNCHANGED <<remoteItems, n, per_page, fetch_type>>
    /\ UNCHANGED otherThanIssues

\* functions.py:120, 162  the loop condition is false: return the issues.
fetch_return ==
    /\ ipc = "loop"
    /\ ~more_wanted(Len(issues), n)
    /\ ipc' = "done"
    /\ UNCHANGED <<remoteItems, n, per_page, fetch_type, page, issues, irequests,
                   iskipped>>
    /\ UNCHANGED otherThanIssues

\* client.py:53-87  the page request is answered with a non-2xx status.
fetch_page_fails ==
    /\ ipc = "loop"
    /\ more_wanted(Len(issues), n)
    /\ irequests' = irequests + 1
    /\ ipc' = "raised"
    /\ UNCHANGED <<remoteItems, n, per_page, fetch_type, page, issues, iskipped>>
    /\ UNCHANGED otherThanIssues

\* ------------------------------------------------ fetch_directory_structure
\* Entry names are strings, written as sequences of characters.  The remote
\* tree is a chain of directories named SpineName, each of which may hold a
\* second entry named LeafName (a file, an empty directory or a symlink).
SpineName == <<"a">>
LeafName == <<"a", "b">>

Node(path, type) == [path |-> path, type |-> type]

RECURSIVE Forests(_, _)
Forests(prefix, depth) ==
    IF depth = 0 THEN {{}}
    ELSE LET sp == Append(prefix, SpineName)
             lf == Append(prefix, LeafName)
             spineOpts == {{}, {Node(sp, "file")}}
                          \cup {{Node(sp, "dir")} \cup F : F \in Forests(sp, depth - 1)}
             leafOpts == {{}, {Node(lf, "file")}, {Node(lf, "dir")},
                          {Node(lf, "symlink")}}
         IN  {S \cup L : S \in spineOpts, L \in leafOpts}

\* The glob patterns a caller passes; <<>> is no pattern.
Patterns == {<<>>, <<"a">>, <<"a", "*">>, <<"*", "b">>, <<"?">>}

\* functions.py:670  fnmatch.fnmatch(name, pattern): `*` matches any run of
\* characters, `?` any one character, anything else itself; the whole name
\* must match.
RECURSIVE fnmatch(_, _)
fnmatch(name, pat) ==
    IF pat = <<>> THEN name = <<>>
    ELSE IF Head(pat) = "*"
           THEN fnmatch(name, Tail(pat)) \/ (name # <<>> /\ fnmatch(Tail(name), pat))
           ELSE /\ name # <<>>
                /\ (Head(pat) = "?" \/ Head(pat) = Head(name))
                /\ fnmatch(Tail(name), Tail(pat))

\* The name of an entry: the last component of its path.
EntryName(item) == item.path[Len(item.path)]

\* functions.py:663-666  the remote's answer to GET /contents/{path}: the
\* entries directly under path, in name order.
Listing(tree, path) ==
    LET at(name) == {x \in tree : x.path = Append(path, name)}
        one(name) == IF at(name) = {} THEN <<>> ELSE <<CHOOSE x \in at(name) : TRUE>>
    IN  one(SpineName) \o one(LeafName)

\* Variant of filtered_out that applies the pattern to files only.
filtered_out_FilesOnly(item, pat) ==
    item.type = "file" /\ pat # <<>> /\ ~fnmatch(EntryName(item), pat)

\* functions.py:670  if pattern and not fnmatch.fnmatch(item["name"], pattern)
filtered_out(item, pat) == pat # <<>> /\ ~fnmatch(EntryName(item), pat)

\* Variant of descend that goes one level further.
descend_Inclusive(level, lv) == level <= lv

\* functions.py:675  if level < levels
descend(level, lv) == level < lv

Frame(path, level) == [path |-> path, level |-> level, items |-> <<>>, fetched |-> FALSE]

Rendered(item, level) == [path |-> item.path, type |-> item.type, level |-> level]

DirectoryIdle ==
    /\ dpc = "idle"
    /\ levels = 0
    /\ pattern = <<>>
    /\ dstack = <<>>
    /\ output = <<>>
    /\ drequests = <<>>

NoDirectory == remoteTree = {} /\ DirectoryIdle

InitDirectory ==
    /\ remoteTree \in Forests(<<>>, MaxDepth)
    /\ DirectoryIdle

Top == dstack[Len(dstack)]

SetTop(f) == [dstack EXCEPT ![Len(dstack)] = f]

\* functions.py:659-683  the call: traverse_directory(directory_path, 0)
Call_fetch_directory_structure ==
    /\ dpc \in {"idle", "done", "raised"}
    /\ \E lv \in 0..MaxLevels, pat \in Patterns :
         /\ levels' = lv
         /\ pattern' = pat
    /\ dstack' = <<Frame(<<>>, 0)>>
    /\ output' = <<>>
    /\ drequests' = <<>>
    /\ dpc' = "run"
    /\ UNCHANGED remoteTree
    /\ UNCHANGED otherThanDirectory

\* functions.py:663-668  traverse_directory requests the contents of its path.
traverse_request ==
    /\ dpc = "run"
    /\ ~Top.fetched
    /\ drequests' = Append(drequests, [path |-> Top.path, level |-> Top.level])
    /\ dstack' = SetTop([Top EXCEPT !.items = Listing(remoteTree, Top.path),
                                    !.fetched = TRUE])
    /\ UNCHANGED <<remoteTree, dpc, levels, pattern, output>>
    /\ UNCHANGED otherThanDirectory

\* client.py:53-87  the contents request is answered with a non-2xx status.
traverse_request_fails ==
    /\ dpc = "run"
    /\ ~Top.fetched
    /\ drequests' = Append(drequests, [path |-> Top.path, level |-> Top.level])
    /\ dstack' = <<>>
    /\ dpc' = "raised"
    /\ UNCHANGED <<remoteTree, levels, pattern, output>>
    /\ UNCHANGED otherThanDirectory

\* functions.py:669-678  one iteration of `for item in items`.
traverse_item ==
    /\ dpc = "run"
    /\ Top.fetched
    /\ Top.items # <<>>
    /\ LET item == Head(Top.items)
           rest == SetTop([Top EXCEPT !.items = Tail(Top.items)])
       IN  IF filtered_out(item, pattern)
             THEN /\ dstack' = rest
                  /\ UNCHANGED output
             ELSE IF item.type = "dir"
                    THEN /\ output' = Append(output, Rendered(item, Top.level))
                         /\ dstack' = IF descend(Top.level, levels)
                                        THEN Append(rest, Frame(item.path, Top.level + 1))
                                        ELSE rest
                    ELSE IF item.type = "file"
                           THEN /\ output' = Append(output, Rendered(item, Top.level))
                                /\ dstack' = rest
                           ELSE /\ dstack' = rest
                                /\ UNCHANGED output
    /\ UNCHANGED <<remoteTree, dpc, levels, pattern, drequests>>
    /\ UNCHANGED otherThanDirectory

\* functions.py:680, 683-690  traverse_directory returns its output; the
\* outermost return ends fetch_directory_structure.
traverse_return ==
    /\ dpc = "run"
    /\ Top.fetched
    /\ Top.items = <<>>
    /\ dstack' = SubSeq(dstack, 1, Len(dstack) - 1)
    /\ dpc' = IF Len(dstack) = 1 THEN "done" ELSE "run"
    /\ UNCHANGED <<remoteTree, levels, pattern, output, drequests>>
    /\ UNCHANGED otherThanDirectory

\* ---------------------------------------------------------- create_repo_tag
TagNames == 1..NumTagNames
Commits == 1..NumCommits

AlreadyExists == "Reference already exists"

\* The error answers to the ref-creation request: a JSON body with a message,
\* a JSON body without one, or a body that is not JSON.
RefErrors ==
    {[json |-> TRUE, has_message |-> TRUE, message |-> msg] :
        msg \in {AlreadyExists, "Validation Failed", "Not Found"}}
    \cup {[json |-> TRUE, has_message |-> FALSE, message |-> ""],
          [json |-> FALSE, has_message |-> FALSE, message |-> ""]}

NoTag == [kind |-> "none", tag |-> 0, object |-> 0, sha |-> 0]
Raised == [kind |-> "raised", tag |-> 0, object |-> 0, sha |-> 0]

\* functions.py:809, 816  GitHubTag.model_validate(response.json())
TagOf(resp) == [kind |-> "tag", tag |-> resp.tag, object |-> resp.object, sha |-> resp.sha]

NoTagCall == [tag_name |-> 0, commit_sha |-> 0, ret |-> NoTag, refOutcome |-> "none",
              fault |-> FALSE]

\* Variant of ref_error_handler without the try/except: every error is raised.
ref_error_handler_Reraise(err) == "raise"

\* client.py:58-59 and functions.py:797-816  what becomes of an error answer
\* to the ref-creation request: GHClient.request reads e.response.json() to
\* log it (not JSON: that raises) and re-raises; the except clause reads
\* ["message"] (absent: that raises), returns the tag if it holds "Reference
\* already exists", and otherwise leaves the except block, after which "Tag
\* created" is logged and the tag returned.
ref_error_handler(err) ==
    IF ~err.json THEN "raise"
    ELSE IF ~err.has_message THEN "raise"
    ELSE IF err.message = AlreadyExists THEN "return_existing"
    ELSE "fall_through"

\* How the answer is recorded in refOutcome.
RefOutcomeOf(err) ==
    IF ~err.json THEN "not_json"
    ELSE IF ~err.has_message THEN "no_message"
    ELSE IF err.message = AlreadyExists THEN "exists"
    ELSE "other_message"

TagIdle ==
    /\ tpc = "idle"
    /\ tag_name = 0
    /\ commit_sha = 0
    /\ response = NoTag
    /\ tret = NoTag
    /\ tlogged = "none"
    /\ refOutcome = "none"
    /\ tfault = FALSE
    /\ tprev = NoTagCall

NoTags ==
    /\ remoteRefs = [t \in TagNames |-> 0]
    /\ tagObjects = 0
    /\ TagIdle

\* Tags created earlier may exist: their objects and refs are on the remote.
InitTag ==
    /\ \E pre \in SUBSET TagNames :
         /\ tagObjects = Cardinality(pre)
         /\ remoteRefs = [t \in TagNames |->
                            IF t \in pre THEN Cardinality({u \in pre : u <= t}) ELSE 0]
    /\ TagIdle

\* functions.py:739-777  the call; the tagger is given or not.
Call_create_repo_tag ==
    /\ tpc = "idle"
    /\ tagObjects < MaxTagObjects
    /\ \E t \in TagNames, c \in Commits, tagger \in BOOLEAN :
         /\ tag_name' = t
         /\ commit_sha' = c
         /\ tpc' = IF tagger THEN "post_tag" ELSE "get_user"
    /\ response' = NoTag
    /\ tret' = NoTag
    /\ tlogged' = "none"
    /\ refOutcome' = "none"
    /\ tfault' = FALSE
    /\ tprev' = [tag_name |-> tag_name, commit_sha |-> commit_sha, ret |-> tret,
                 refOutcome |-> refOutcome, fault |-> tfault]
    /\ UNCHANGED <<remoteRefs, tagObjects>>
    /\ UNCHANGED otherThanTag

\* functions.py:777-783  no tagger given: GET /user and build one.
tag_get_user ==
    /\ tpc = "get_user"
    /\ tpc' = "post_tag"
    /\ UNCHANGED <<remoteRefs, tagObjects, tag_name, commit_sha, response, tret,
                   tlogged, refOutcome, tfault, tprev>>
    /\ UNCHANGED otherThanTag

\* functions.py:784-794  POST /git/tags creates the annotated tag object.
tag_post_object ==
    /\ tpc = "post_tag"
    /\ tagObjects' = tagObjects + 1
    /\ response' = [kind |-> "response", tag |-> tag_name, object |-> commit_sha,
                    sha |-> tagObjects + 1]
    /\ tpc' = "post_ref"
    /\ UNCHANGED <<remoteRefs, tag_name, commit_sha, tret, tlogged, refOutcome,
                   tfault, tprev>>
    /\ UNCHANGED otherThanTag

\* client.py:53-87  GET /user or POST /git/tags is answered with a non-2xx
\* status (or the user cannot be validated): the call raises.
tag_request_fails ==
    /\ tpc \in {"get_user", "post_tag"}
    /\ tpc' = "idle"
    /\ tret' = Raised
    /\ tfault' = TRUE
    /\ UNCHANGED <<remoteRefs, tagObjects, tag_name, commit_sha, response, tlogged,
                   refOutcome, tprev>>
    /\ UNCHANGED otherThanTag

\* functions.py:798-801, 811-816  POST /git/refs succeeds: the ref did not
\* exist and now points at the new tag object.
tag_post_ref_created ==
    /\ tpc = "post_ref"
    /\ remoteRefs[tag_name] = 0
    /\ remoteRefs' = [remoteRefs EXCEPT ![tag_name] = response.sha]
    /\ refOutcome' = "created"
    /\ tlogged' = "Tag created"
    /\ tret' = TagOf(response)
    /\ tpc' = "idle"
    /\ UNCHANGED <<tagObjects, tag_name, commit_sha, response, tfault, tprev>>
    /\ UNCHANGED otherThanTag

\* functions.py:797-816  POST /git/refs is answered with an error: the remote
\* rejects an existing ref with "Reference already exists", and may answer
\* any request with another error.
tag_post_ref_error ==
    /\ tpc = "post_ref"
    /\ \E err \in RefErrors :
         /\ (err.json /\ err.has_message /\ err.message = AlreadyExists)
                <=> remoteRefs[tag_name] # 0
         /\ refOutcome' = RefOutcomeOf(err)
         /\ tfault' = (RefOutcomeOf(err) # "exists")
         /\ LET h == ref_error_handler(err) IN
              /\ tret' = IF h = "raise" THEN Raised ELSE TagOf(response)
              /\ tlogged' = CASE h = "return_existing" -> "Tag already exists"
                              [] h = "fall_through"    -> "Tag created"
                              [] OTHER                 -> tlogged
    /\ tpc' = "idle"
    /\ UNCHANGED <<remoteRefs, tagObjects, tag_name, commit_sha, response, tprev>>
    /\ UNCHANGED otherThanTag

\* ------------------------------------------------- the client's requests
\* The non-2xx statuses the remote answers with in this model.
ErrorStatuses == {302, 401, 403, 404, 422, 500}

\* httpx Response.is_success, which raise_for_status tests (client.py:56).
is_success(status) == status >= 200 /\ status <= 299

\* Variant of request_outcome that reads no body while handling the error.
request_outcome_BodyUnread(status, body_is_json) ==
    IF is_success(status) THEN "response" ELSE "HTTPStatusError"

\* client.py:53-89  what GHClient.request does with an answer: a 2xx response
\* is returned; otherwise raise_for_status raises HTTPStatusError, and the
\* except block first evaluates e.response.json() for the log line, which
\* raises JSONDecodeError when the body is not JSON; only then come the
\* status match and the bare `raise`.
request_outcome(status, body_is_json) ==
    IF is_success(status) THEN "response"
    ELSE IF ~body_is_json THEN "JSONDecodeError"
    ELSE "HTTPStatusError"

\* ----------------------------------------------------- open_pull_request
Heads == 1..NumHeads
Bases == {"main", "dev"}
PullKeys == Heads \X Bases

\* What errors[0] of an error body can be: a mapping with field "head" and
\* code "invalid" (other keys allowed), another mapping, or not a mapping.
ErrorItems == {"head_invalid", "other_mapping", "text"}

RECURSIVE ErrorLists(_)
ErrorLists(k) ==
    IF k = 0 THEN {<<>>}
    ELSE ErrorLists(k - 1)
         \cup {Append(l, i) : l \in {x \in ErrorLists(k - 1) : Len(x) = k - 1},
                              i \in ErrorItems}

\* The bodies of an error answer: not JSON; JSON without an "errors" list
\* (e.g. {"message": "Not Found"}); JSON with a list of errors.
ErrorBodies ==
    {[json |-> FALSE, has_errors |-> FALSE, errors |-> <<>>],
     [json |-> TRUE, has_errors |-> FALSE, errors |-> <<>>]}
    \cup {[json |-> TRUE, has_errors |-> TRUE, errors |-> l] : l \in ErrorLists(MaxErrors)}

NoBody == [json |-> FALSE, has_errors |-> FALSE, errors |-> <<>>]
NoRejection == [status |-> 0, body |-> NoBody]
NoPull == [kind |-> "none", head |-> 0, base |-> "", created |-> FALSE]
PullRaised(kind) == [kind |-> kind, head |-> 0, base |-> "", created |-> FALSE]

\* functions.py:354, 380  GitHubPullRequest.model_validate(...)
PullOf(h, b, created) == [kind |-> "pr", head |-> h, base |-> b, created |-> created]

\* functions.py:345-347  the answer to GET /pulls?head=..&base=..&state=open:
\* the open pull requests of that head and base.
existing_prs(pulls, h, b) == {k \in pulls : k[1] = h /\ k[2] = b}

\* Variant of short_circuit that never returns the pull request found.
short_circuit_Never(status_code, found) == FALSE

\* functions.py:348  existing_prs.status_code == 200 and existing_prs.json()
short_circuit(status_code, found) == status_code = 200 /\ found # {}

\* functions.py:367-378  the except clause around the POST, entered with the
\* HTTPStatusError that GHClient.request raised: e.response.json()["errors"][0]
\* raises KeyError without an "errors" key and IndexError on an empty list;
\* the mapping pattern {"field": "head", "code": "invalid"} gives ValueError,
\* anything else re-raises e.
post_error_handler(body) ==
    IF ~body.has_errors THEN "KeyError"
    ELSE IF body.errors = <<>> THEN "IndexError"
    ELSE IF body.errors[1] = "head_invalid" THEN "ValueError"
    ELSE "HTTPStatusError"

\* functions.py:356-378 with client.py:53-87  what the caller of
\* open_pull_request receives when the POST is answered with an error.
post_rejected(status, body) ==
    IF request_outcome(status, body.json) = "HTTPStatusError"
    THEN post_error_handler(body)
    ELSE request_outcome(status, body.json)

PullIdle ==
    /\ ppc = "idle"
    /\ head = 0
    /\ base = ""
    /\ check_for_existing = FALSE
    /\ pstart = FALSE
    /\ pgets = 0
    /\ pposts = 0
    /\ prejection = NoRejection
    /\ pret = NoPull

NoPulls ==
    /\ remotePulls = {}
    /\ PullIdle

\* Pull requests opened earlier may be open on the remote.
InitPulls ==
    /\ remotePulls \in SUBSET PullKeys
    /\ PullIdle

\* functions.py:312-344  the call.
Call_open_pull_request ==
    /\ ppc = "idle"
    /\ \E h \in Heads, b \in Bases, c \in BOOLEAN :
         /\ head' = h
         /\ base' = b
         /\ check_for_existing' = c
         /\ pstart' = (<<h, b>> \in remotePulls)
         /\ ppc' = IF c THEN "check" ELSE "post"
    /\ pgets' = 0
    /\ pposts' = 0
    /\ prejection' = NoRejection
    /\ pret' = NoPull
    /\ UNCHANGED remotePulls
    /\ UNCHANGED otherThanPulls

\* functions.py:345-354  the GET is answered 200 with the open pull requests
\* of head and base; the first one is returned if there is one.
pull_check ==
    /\ ppc = "check"
    /\ pgets' = pgets + 1
    /\ LET found == existing_prs(remotePulls, head, base) IN
         IF short_circuit(200, found)
         THEN /\ pret' = PullOf(head, base, FALSE)
              /\ ppc' = "idle"
         ELSE /\ pret' = pret
              /\ ppc' = "post"
    /\ UNCHANGED <<remotePulls, head, base, check_for_existing, pstart, pposts,
                   prejection>>
    /\ UNCHANGED otherThanPulls

\* client.py:53-87  the GET is answered with a non-2xx status: the call raises.
pull_check_fails ==
    /\ ppc = "check"
    /\ pgets' = pgets + 1
    /\ \E s \in ErrorStatuses, j \in BOOLEAN :
         pret' = PullRaised(request_outcome(s, j))
    /\ ppc' = "idle"
    /\ UNCHANGED <<remotePulls, head, base, check_for_existing, pstart, pposts,
                   prejection>>
    /\ UNCHANGED otherThanPulls

\* functions.py:357-366, 380  the POST creates the pull request; the remote
\* accepts it only if head and base have no open pull request yet.
pull_post_created ==
    /\ ppc = "post"
    /\ <<head, base>> \notin remotePulls
    /\ remotePulls' = remotePulls \cup {<<head, base>>}
    /\ pposts' = pposts + 1
    /\ pret' = PullOf(head, base, TRUE)
    /\ ppc' = "idle"
    /\ UNCHANGED <<head, base, check_for_existing, pstart, pgets, prejection>>
    /\ UNCHANGED otherThanPulls

\* functions.py:356-378  the POST is answered with an error.
pull_post_rejected ==
    /\ ppc = "post"
    /\ pposts' = pposts + 1
    /\ \E s \in ErrorStatuses, b \in ErrorBodies :
         /\ prejection' = [status |-> s, body |-> b]
         /\ pret' = PullRaised(post_rejected(s, b))
    /\ ppc' = "idle"
    /\ UNCHANGED <<remotePulls, head, base, check_for_existing, pstart, pgets>>
    /\ UNCHANGED otherThanPulls

\* ----------------------------------------------------------- create_commit
\* The remote's default branch, another branch, and a branch named "0".
DefaultBranch == "main"
BranchNames == {DefaultBranch, "dev", "0"}

\* The commit graphs with exactly k commits; commit c has an earlier commit
\* as parent, or none.
CommitGraphs(k) == {p \in [1..k -> 0..(k - 1)] : \A c \in 1..k : p[c] < c}

\* a is c or an ancestor of c in the commit graph par.
RECURSIVE IsAncestor(_, _, _)
IsAncestor(par, a, c) ==
    IF c = 0 THEN FALSE
    ELSE IF a = c THEN TRUE
    ELSE IsAncestor(par, a, par[c])

\* process.py:321-364  run_gh_command returns what run_command_with_status
\* returns: RuntimeError on a nonzero exit, else process.returncode (line 346),
\* which is 0; the output went to stdout_sink (None: dropped). Line 491 of
\* functions.py formats the value into the ref path, so it is given as text.
run_command_with_status(returncode, stdout) ==
    IF returncode # 0 THEN "RuntimeError" ELSE "0"

\* Variant of patch_force that forces the update.
patch_force_Forced == TRUE

\* functions.py:540-543  the PATCH body is {"sha": ...}: "force" is left out,
\* which the remote takes as false.
patch_force == FALSE

\* The remote's answer to PATCH git/refs/heads/<name>: the ref must exist, and
\* unless forced the update must be a fast-forward.
patch_accepted(par, tip, sha, force) ==
    tip # 0 /\ (force \/ IsAncestor(par, tip, sha))

CommitIdle ==
    /\ cpc = "idle"
    /\ branch = ""
    /\ base_branch = ""
    /\ base_given = FALSE
    /\ create_branch = FALSE
    /\ base_ref_read = ""
    /\ base_tree_sha = 0
    /\ new_commit_sha = 0
    /\ cwrites = <<>>
    /\ cstart = 0
    /\ cret = "none"

NoCommits ==
    /\ remoteBranches = [b \in BranchNames |-> 0]
    /\ parents = <<>>
    /\ CommitIdle

\* The remote holds some commits, and some of the branches point at them.
InitCommits ==
    /\ \E k \in 1..(MaxCommits - 1) :
         /\ parents \in CommitGraphs(k)
         /\ remoteBranches \in [BranchNames -> 0..k]
    /\ CommitIdle

\* functions.py:443-487  the call, with or without base_branch.
Call_create_commit ==
    /\ cpc = "idle"
    /\ Len(parents) < MaxCommits
    /\ \E b \in BranchNames, bb \in BranchNames \cup {""}, cb \in BOOLEAN :
         /\ branch' = b
         /\ base_branch' = bb
         /\ base_given' = (bb # "")
         /\ create_branch' = cb
         /\ cstart' = remoteBranches[b]
         /\ cpc' = IF bb # "" THEN "base" ELSE "default"
    /\ base_ref_read' = ""
    /\ base_tree_sha' = 0
    /\ new_commit_sha' = 0
    /\ cwrites' = <<>>
    /\ cret' = "none"
    /\ UNCHANGED <<remoteBranches, parents>>
    /\ UNCHANGED otherThanCommits

\* functions.py:431-440, 487  no base_branch: `gh repo view ... --jq
\* .defaultBranchRef.name` prints the default branch's name and exits 0.
commit_default_branch ==
    /\ cpc = "default"
    /\ base_branch' = run_command_with_status(0, DefaultBranch)
    /\ cpc' = "base"
    /\ UNCHANGED <<remoteBranches, parents, branch, base_given, create_branch,
                   base_ref_read, base_tree_sha, new_commit_sha, cwrites, cstart, cret>>
    /\ UNCHANGED otherThanCommits

\* functions.py:490-493  GET git/refs/heads/{base_branch}, answered if the
\* ref exists.
commit_get_base ==
    /\ cpc = "base"
    /\ remoteBranches[base_branch] # 0
    /\ base_ref_read' = base_branch
    /\ base_tree_sha' = remoteBranches[base_branch]
    /\ cpc' = "tree"
    /\ UNCHANGED <<remoteBranches, parents, branch, base_branch, base_given,
                   create_branch, new_commit_sha, cwrites, cstart, cret>>
    /\ UNCHANGED otherThanCommits

\* functions.py:496-521  POST git/trees, then POST git/commits with
\* "parents": [base_tree_sha]; then line 524.
commit_post_objects ==
    /\ cpc \in {"tree", "commit"}
    /\ IF cpc = "tree"
       THEN /\ cpc' = "commit"
            /\ UNCHANGED <<parents, new_commit_sha>>
       ELSE /\ parents' = Append(parents, base_tree_sha)
            /\ new_commit_sha' = Len(parents) + 1
            /\ cpc' = IF create_branch THEN "check" ELSE "update"
    /\ UNCHANGED <<remoteBranches, branch, base_branch, base_given, create_branch,
                   base_ref_read, base_tree_sha, cwrites, cstart, cret>>
    /\ UNCHANGED otherThanCommits

\* functions.py:524-528  GET git/refs/heads/{branch}: answered if the ref
\* exists, else 404 "Not Found", which leads to the POST of line 529.
commit_check_branch ==
    /\ cpc = "check"
    /\ cpc' = IF remoteBranches[branch] # 0 THEN "update" ELSE "create"
    /\ UNCHANGED <<remoteBranches, parents, branch, base_branch, base_given,
                   create_branch, base_ref_read, base_tree_sha, new_commit_sha,
                   cwrites, cstart, cret>>
    /\ UNCHANGED otherThanCommits

\* functions.py:529-535  POST git/refs creates refs/heads/{branch} at the new
\* commit; control then leaves the if statement and reaches line 540.
commit_create_ref ==
    /\ cpc = "create"
    /\ remoteBranches[branch] = 0
    /\ remoteBranches' = [remoteBranches EXCEPT ![branch] = new_commit_sha]
    /\ cwrites' = Append(cwrites, "POST")
    /\ cpc' = "update"
    /\ UNCHANGED <<parents, branch, base_branch, base_given, create_branch,
                   base_ref_read, base_tree_sha, new_commit_sha, cstart, cret>>
    /\ UNCHANGED otherThanCommits

\* functions.py:540-551  PATCH git/refs/heads/{branch} is accepted; the
\* commit is returned.
commit_update_ref ==
    /\ cpc = "update"
    /\ patch_accepted(parents, remoteBranches[branch], new_commit_sha, patch_force)
    /\ remoteBranches' = [remoteBranches EXCEPT ![branch] = new_commit_sha]
    /\ cwrites' = Append(cwrites, "PATCH")
    /\ cret' = "commit"
    /\ cpc' = "idle"
    /\ UNCHANGED <<parents, branch, base_branch, base_given, create_branch,
                   base_ref_read, base_tree_sha, new_commit_sha, cstart>>
    /\ UNCHANGED otherThanCommits

\* client.py:53-87, process.py:336-352  a request is answered with an error
\* (a missing ref, a rejected PATCH, any other non-2xx status) or the gh
\* command fails: the call raises.
commit_request_fails ==
    /\ cpc # "idle"
    /\ cret' = "raised"
    /\ cpc' = "idle"
    /\ UNCHANGED <<remoteBranches, parents, branch, base_branch, base_given,
                   create_branch, base_ref_read, base_tree_sha, new_commit_sha,
                   cwrites, cstart>>
    /\ UNCHANGED otherThanCommits

\* --------------------------------------------------------------- read_file
\* The file texts: 0 is the empty text, the others are distinct non-empty texts.
Texts == 0..NumTexts
NoRead == [kind |-> "none", text |-> 0]

\* functions.py:585-603  what read_file does with the outcome of its request
\* for a response with the given text: JSONDecodeError is caught and "" is
\* returned; any other error passes through; a response gives its text.
read_file_result(outcome, text) ==
    CASE outcome = "response"        -> [kind |-> "returned", text |-> text]
      [] outcome = "JSONDecodeError" -> [kind |-> "returned", text |-> 0]
      [] OTHER                       -> [kind |-> outcome, text |-> 0]

ReadIdle ==
    /\ rpc = "idle"
    /\ rbranch = ""
    /\ rstatus = 0
    /\ rjson = FALSE
    /\ routcome = "none"
    /\ rret = NoRead

NoFiles ==
    /\ remoteFiles = <<>>
    /\ ReadIdle

\* The file exists on some of the branches.
InitFiles ==
    /\ \E S \in SUBSET {"main", "dev"} : remoteFiles \in [S -> Texts]
    /\ ReadIdle

\* functions.py:554-586  the call; settings.py:24 gives the default base.
Call_read_file ==
    /\ rpc = "idle"
    /\ \E b \in {"", "main", "dev"} : rbranch' = IF b = "" THEN "main" ELSE b
    /\ rpc' = "get"
    /\ rstatus' = 0
    /\ rjson' = FALSE
    /\ routcome' = "none"
    /\ rret' = NoRead
    /\ UNCHANGED remoteFiles
    /\ UNCHANGED otherThanFiles

\* functions.py:587-603  GET /raw/{owner}/{repo}/{branch}/{path} is answered
\* 200 with the file's text, which is no JSON or happens to be.
read_get_ok ==
    /\ rpc = "get"
    /\ rbranch \in DOMAIN remoteFiles
    /\ \E j \in BOOLEAN :
         /\ rjson' = j
         /\ routcome' = request_outcome(200, j)
         /\ rret' = read_file_result(request_outcome(200, j), remoteFiles[rbranch])
    /\ rstatus' = 200
    /\ rpc' = "idle"
    /\ UNCHANGED <<remoteFiles, rbranch>>
    /\ UNCHANGED otherThanFiles

\* client.py:53-89, functions.py:587-596  the GET is answered with a non-2xx
\* status (404 if the file does not exist), the body JSON or not.
read_get_error ==
    /\ rpc = "get"
    /\ \E s \in ErrorStatuses, j \in BOOLEAN :
         /\ rbranch \notin DOMAIN remoteFiles => s = 404
         /\ rstatus' = s
         /\ rjson' = j
         /\ routcome' = request_outcome(s, j)
         /\ rret' = read_file_result(request_outcome(s, j), 0)
    /\ rpc' = "idle"
    /\ UNCHANGED <<remoteFiles, rbranch>>
    /\ UNCHANGED otherThanFiles

\* ---------------------------------------------------------------- parse_as
\* The raw data given to parse_as: a list of elements (element 0 does not
\* validate as T, the others do), a scalar, or a mapping, given by its values
\* in key order, each a list or a scalar.
ListsUpTo(k) == UNION {[1..len -> 0..NumRecords] : len \in 0..k}
ListData(l) == [tag |-> "list", items |-> l, entries |-> <<>>]
ScalarData == [tag |-> "scalar", items |-> <<>>, entries |-> <<>>]
DictData(vs) == [tag |-> "dict", items |-> <<>>, entries |-> vs]
MappingValues == {ListData(l) : l \in ListsUpTo(MaxListLen)} \cup {ScalarData}
RawData ==
    MappingValues
    \cup {DictData(<<>>)}
    \cup {DictData(<<v>>) : v \in MappingValues}
    \cup {DictData(<<v, w>>) : v \in MappingValues, w \in MappingValues}

\* The elements of a list in order of first occurrence.
RECURSIVE Dedup(_)
Dedup(l) ==
    IF l = <<>> THEN <<>>
    ELSE LET rest == Dedup(SubSeq(l, 1, Len(l) - 1)) IN
         IF \E i \in 1..Len(rest) : rest[i] = l[Len(l)] THEN rest
         ELSE Append(rest, l[Len(l)])

\* utils.py:38-40, 44  TypeAdapter(type_).validate_python(d): a list of valid
\* elements validates as list[T] and as set[T], a mapping validates as T;
\* anything else is a ValidationError.
validate(t, d) ==
    CASE t = "list" /\ d.tag = "list" /\ (\A i \in 1..Len(d.items) : d.items[i] # 0)
            -> [kind |-> "ok", value |-> d]
      [] t = "set" /\ d.tag = "list" /\ (\A i \in 1..Len(d.items) : d.items[i] # 0)
            -> [kind |-> "ok", value |-> [tag |-> "set", items |-> Dedup(d.items),
                                          entries |-> <<>>]]
      [] t = "record" /\ d.tag = "dict" /\ d.entries # <<>>
            -> [kind |-> "ok", value |-> d]
      [] OTHER
            -> [kind |-> "ValidationError", value |-> ScalarData]

\* Variant of unwraps that unwraps a mapping for every target.
unwraps_AnyTarget(t, d) == d.tag = "dict"

\* utils.py:41  get_origin(type_) is list and isinstance(data, dict)
unwraps(t, d) == t = "list" /\ d.tag = "dict"

\* utils.py:38-44  parse_as: next(iter(data.values())) is the first value, and
\* raises StopIteration on an empty mapping.
parse_as(t, d) ==
    IF unwraps(t, d)
    THEN IF d.entries = <<>>
         THEN [kind |-> "StopIteration", value |-> ScalarData]
         ELSE validate(t, d.entries[1])
    ELSE validate(t, d)

NotParsed == [kind |-> "none", value |-> ScalarData]

NoParse ==
    /\ type_ = ""
    /\ data = ScalarData
    /\ parsed = NotParsed

InitParse ==
    /\ type_ \in {"list", "set", "record"}
    /\ data \in RawData
    /\ parsed = NotParsed

\* utils.py:9-44  the call.
Call_parse_as ==
    /\ type_ # ""
    /\ parsed = NotParsed
    /\ parsed' = parse_as(type_, data)
    /\ UNCHANGED <<type_, data>>
    /\ UNCHANGED otherThanParse

\* --------------------------------------------------- fetch_latest_repo_tag
\* The creation orders of the tags: the sequences of distinct tag names.
CreationOrders ==
    {s \in UNION {[1..k -> 1..NumRefNames] : k \in 0..NumRefNames} :
        \A i, j \in 1..Len(s) : i # j => s[i] # s[j]}

\* functions.py:856-862  the answer to GET git/refs/tags with per_page=1,
\* order=desc, sort=created and, with a pattern, q="<pattern> in:ref
\* type:tag". The git refs listing gives the refs in name order and defines
\* no sort, order or q parameter; a remote that did interpret them would sort
\* by creation, latest first, and keep the tags the pattern matches. Either
\* way the page holds per_page = 1 element.
refs_page(created, matching, with_pattern, honoured) ==
    IF honoured
    THEN LET c == SelectSeq(created, LAMBDA t : ~with_pattern \/ t \in matching) IN
         IF c = <<>> THEN <<>> ELSE <<c[Len(c)]>>
    ELSE IF created = <<>> THEN <<>>
         ELSE <<CHOOSE t \in {created[i] : i \in 1..Len(created)} :
                   \A i \in 1..Len(created) : t <= created[i]>>

\* functions.py:867  parse_as(list[GitHubRef], tags)[-n:]
last_n(tags, k) ==
    SubSeq(tags, IF Len(tags) > k THEN Len(tags) - k + 1 ELSE 1, Len(tags))

\* functions.py:848-849, 864-867  `if not tags: raise ValueError`, then the
\* last n refs, of which fetch_latest_repo_tag (n = 1) returns element 0.
latest_of(tags) ==
    IF tags = <<>> THEN [kind |-> "ValueError", name |-> 0]
    ELSE [kind |-> "ref", name |-> last_n(tags, 1)[1]]

NoLatest ==
    /\ remoteTagRefs = <<>>
    /\ tag_matching = {}
    /\ query_honoured = FALSE
    /\ tag_pattern = FALSE
    /\ ltpc = "idle"
    /\ ltret = [kind |-> "none", name |-> 0]
    /\ tag_count = 0
    /\ ltrefs = <<>>

InitLatest ==
    /\ remoteTagRefs \in CreationOrders
    /\ tag_matching = {}
    /\ query_honoured \in BOOLEAN
    /\ tag_pattern = FALSE
    /\ ltpc = "idle"
    /\ ltret = [kind |-> "none", name |-> 0]
    /\ tag_count = 0
    /\ ltrefs = <<>>

\* functions.py:819-858  the call, with or without a pattern; a pattern
\* matches some of the tag names.
Call_fetch_latest_repo_tag ==
    /\ ltpc = "idle"
    /\ \E p \in BOOLEAN, matched \in SUBSET (1..NumRefNames) :
         /\ ~p => matched = {}
         /\ tag_pattern' = p
         /\ tag_matching' = matched
    /\ ltpc' = "get"
    /\ ltret' = [kind |-> "none", name |-> 0]
    /\ tag_count' = 0
    /\ ltrefs' = <<>>
    /\ UNCHANGED <<remoteTagRefs, query_honoured>>
    /\ UNCHANGED otherThanLatest

\* functions.py:852-858  a call of fetch_latest_n_repo_tags itself, with n.
Call_fetch_latest_n_repo_tags ==
    /\ ltpc = "idle"
    /\ \E p \in BOOLEAN, matched \in SUBSET (1..NumRefNames), k \in 1..NumRefNames :
         /\ ~p => matched = {}
         /\ tag_pattern' = p
         /\ tag_matching' = matched
         /\ tag_count' = k
    /\ ltpc' = "get"
    /\ ltret' = [kind |-> "none", name |-> 0]
    /\ ltrefs' = <<>>
    /\ UNCHANGED <<remoteTagRefs, query_honoured>>
    /\ UNCHANGED otherThanLatest

\* functions.py:860-867, 849  the GET is answered.
latest_get ==
    /\ ltpc = "get"
    /\ LET tags == refs_page(remoteTagRefs, tag_matching, tag_pattern, query_honoured)
       IN  IF tag_count = 0
           THEN /\ ltret' = latest_of(tags)
                /\ ltrefs' = <<>>
           ELSE /\ ltret' = IF tags = <<>> THEN [kind |-> "ValueError", name |-> 0]
                                           ELSE [kind |-> "refs", name |-> 0]
                /\ ltrefs' = last_n(tags, tag_count)
    /\ ltpc' = "idle"
    /\ UNCHANGED <<remoteTagRefs, tag_matching, query_honoured, tag_pattern, tag_count>>
    /\ UNCHANGED otherThanLatest

\* client.py:53-87  the GET is answered with a non-2xx status: the call raises.
latest_get_fails ==
    /\ ltpc = "get"
    /\ ltret' = [kind |-> "HTTPStatusError", name |-> 0]
    /\ ltpc' = "idle"
    /\ UNCHANGED <<remoteTagRefs, tag_matching, query_honoured, tag_pattern, tag_count,
                   ltrefs>>
    /\ UNCHANGED otherThanLatest

\* ------------------------------------------------- get_prs_between_releases
\* A commit message is a sequence of tokens: pieces of text and numbers.
Text(s) == [text |-> s, number |-> 0]
Number(k) == [text |-> "", number |-> k]

\* The messages of the commits: the merge commit of pull request k, a commit
\* that mentions k further on, and a commit that mentions none.
CommitMessages ==
    {<<Text("Merge pull request "), Text("#"), Number(k), Text(" "), Text("from o/b")>> :
        k \in 1..NumPulls}
    \cup {<<Text("Fix"), Text(" "), Text("#"), Number(k), Text(" "), Text("again")>> :
             k \in 1..NumPulls}
    \cup {<<Text("Update"), Text(" "), Text("docs")>>}

\* str.split(sep)[0] and the rest after the first sep, on token sequences.
RECURSIVE before(_, _)
before(msg, sep) ==
    IF msg = <<>> \/ msg[1] = sep THEN <<>>
    ELSE <<msg[1]>> \o before(Tail(msg), sep)

after(msg, sep) == SubSeq(msg, Len(before(msg, sep)) + 2, Len(msg))

\* Variant of is_merge_message that takes any message mentioning a number.
is_merge_message_AnyMention(msg) == \E i \in 1..Len(msg) : msg[i] = Text("#")

\* functions.py:981  message.startswith("Merge pull request #")
is_merge_message(msg) ==
    Len(msg) >= 2 /\ msg[1] = Text("Merge pull request ") /\ msg[2] = Text("#")

\* functions.py:982  message.split("#")[1].split(" ")[0]
pr_number_of(msg) == before(before(after(msg, Text("#")), Text("#")), Text(" "))

\* functions.py:978-983  the first loop: the set of the numbers extracted.
extract_pr_numbers(commits) ==
    {pr_number_of(commits[i]) : i \in {j \in 1..Len(commits) : is_merge_message(commits[j])}}

NoReleases ==
    /\ remoteCompare = <<>>
    /\ gpc = "idle"
    /\ pr_numbers = {}
    /\ prs = <<>>
    /\ grequests = 0

InitReleases ==
    /\ remoteCompare \in UNION {[1..k -> CommitMessages] : k \in 0..MaxCompared}
    /\ gpc = "idle"
    /\ pr_numbers = {}
    /\ prs = <<>>
    /\ grequests = 0

\* functions.py:939-973  the call.
Call_get_prs_between_releases ==
    /\ gpc \in {"idle", "done", "raised"}
    /\ gpc' = "compare"
    /\ pr_numbers' = {}
    /\ prs' = <<>>
    /\ grequests' = 0
    /\ UNCHANGED remoteCompare
    /\ UNCHANGED otherThanReleases

\* functions.py:973-983  GET compare/{base}...{head}, then the first loop.
releases_compare ==
    /\ gpc = "compare"
    /\ pr_numbers' = extract_pr_numbers(remoteCompare)
    /\ grequests' = grequests + 1
    /\ gpc' = "fetch"
    /\ UNCHANGED <<remoteCompare, prs>>
    /\ UNCHANGED otherThanReleases

\* functions.py:987-991  one round of the second loop, which iterates the
\* set in no particular order: GET pulls/{pr_number}.
releases_fetch_pr ==
    /\ gpc = "fetch"
    /\ \E pr_number \in pr_numbers :
         /\ Len(pr_number) = 1 /\ pr_number[1].number # 0
         /\ prs' = Append(prs, pr_number[1].number)
         /\ pr_numbers' = pr_numbers \ {pr_number}
    /\ grequests' = grequests + 1
    /\ UNCHANGED <<remoteCompare, gpc>>
    /\ UNCHANGED otherThanReleases

\* functions.py:993-999  the second loop is over: prs is returned.
releases_return ==
    /\ gpc = "fetch"
    /\ pr_numbers = {}
    /\ gpc' = "done"
    /\ UNCHANGED <<remoteCompare, pr_numbers, prs, grequests>>
    /\ UNCHANGED otherThanReleases

\* client.py:53-87  a request is answered with a non-2xx status (also: the
\* extracted text is not the number of a pull request): the call raises.
releases_request_fails ==
    /\ \/ gpc = "compare"
       \/ gpc = "fetch" /\ pr_numbers # {}
    /\ grequests' = grequests + 1
    /\ gpc' = "raised"
    /\ UNCHANGED <<remoteCompare, pr_numbers, prs>>
    /\ UNCHANGED otherThanReleases

\* -------------------------------------------------- fetch_contributor_data
\* The kinds of events of the feed: type, payload.action, and the messages of
\* payload.commits, given by whether they contain "Merge".
EventKinds ==
    {[type |-> "IssuesEvent", action |-> "opened", commits |-> <<>>],
     [type |-> "IssuesEvent", action |-> "closed", commits |-> <<>>],
     [type |-> "PullRequestEvent", action |-> "opened", commits |-> <<>>],
     [type |-> "PushEvent", action |-> "", commits |-> <<FALSE, TRUE>>],
     [type |-> "WatchEvent", action |-> "started", commits |-> <<>>]}

Event(a, t, k) == [actor |-> a, created_at |-> t, kind |-> k]
AllEvents == {Event(a, t, k) : a \in 1..NumUsers, t \in 0..MaxTime, k \in EventKinds}
Feeds == {<<>>} \cup {<<e>> : e \in AllEvents} \cup {<<e, f>> : e \in AllEvents, f \in AllEvents}

\* The time that stands for `since=None`.
NoSince == 0 - 1

\* Variant of skip_event that skips only old events of excluded users.
skip_event_And(event, excluded, cutoff) ==
    event.actor \in excluded /\ event.created_at < cutoff

\* functions.py:402  event.actor.login in excluded_users or event.created_at < since
skip_event(event, excluded, cutoff) ==
    event.actor \in excluded \/ event.created_at < cutoff

\* functions.py:405-412  the buckets a new actor gets.
EmptyActivity == [created_issues |-> <<>>, created_pull_requests |-> <<>>,
                  merged_commits |-> <<>>]

\* functions.py:414-426  what event i adds to its actor's buckets; an item is
\* given by the event it comes from and, for a commit, its place in the push.
add_event(activity, i, event) ==
    IF event.kind.type = "IssuesEvent" /\ event.kind.action = "opened"
    THEN [activity EXCEPT !.created_issues = Append(@, [event |-> i, commit |-> 0])]
    ELSE IF event.kind.type = "PullRequestEvent" /\ event.kind.action = "opened"
    THEN [activity EXCEPT !.created_pull_requests = Append(@, [event |-> i, commit |-> 0])]
    ELSE IF event.kind.type = "PushEvent"
    THEN [activity EXCEPT !.merged_commits =
            @ \o [j \in 1..Cardinality({c \in 1..Len(event.kind.commits) :
                                           ~event.kind.commits[c]}) |->
                    [event |-> i,
                     commit |-> CHOOSE c \in 1..Len(event.kind.commits) :
                                  /\ ~event.kind.commits[c]
                                  /\ Cardinality({d \in 1..c : ~event.kind.commits[d]}) = j]]]
    ELSE activity

\* functions.py:401-426  the loop over the events from event i on.
RECURSIVE bucket_events(_, _, _, _, _)
bucket_events(feed, i, excluded, cutoff, acc) ==
    IF i > Len(feed) THEN acc
    ELSE IF skip_event(feed[i], excluded, cutoff)
    THEN bucket_events(feed, i + 1, excluded, cutoff, acc)
    ELSE LET a == feed[i].actor
             had == IF a \in DOMAIN acc THEN acc[a] ELSE EmptyActivity
             now == add_event(had, i, feed[i])
         IN  bucket_events(feed, i + 1, excluded, cutoff,
                           [b \in DOMAIN acc \cup {a} |-> IF b = a THEN now ELSE acc[b]])

\* functions.py:390  since = since or gh_util.settings.default_since
since_or_default == IF since = NoSince THEN default_since ELSE since

NoContributors ==
    /\ clock = 0
    /\ default_since = 0
    /\ events = <<>>
    /\ since = NoSince
    /\ excluded_users = {}
    /\ called_at = NoSince
    /\ contributors_activity = <<>>

\* settings.py:25, 40  the settings object is made when gh_util is loaded, at
\* time Day: default_since is that time minus one day. The feed and the
\* arguments of the call to come are drawn here.
InitContributors ==
    /\ clock = Day
    /\ default_since = Day - Day
    /\ events \in Feeds
    /\ since \in {NoSince} \cup 0..MaxTime
    /\ excluded_users \in {{}, {1}}
    /\ called_at = NoSince
    /\ contributors_activity = <<>>

\* Time passes before the call.
contributors_tick ==
    /\ called_at = NoSince
    /\ events # <<>>
    /\ clock < MaxTime
    /\ clock' = clock + 1
    /\ UNCHANGED <<default_since, events, since, excluded_users, called_at,
                   contributors_activity>>
    /\ UNCHANGED otherThanContributors

\* functions.py:383-428  the call: line 390 replaces a missing since by
\* settings.default_since, the GET is answered with the feed, the loop runs.
Call_fetch_contributor_data ==
    /\ called_at = NoSince
    /\ events # <<>>
    /\ called_at' = clock
    /\ contributors_activity' =
          bucket_events(events, 1, excluded_users, since_or_default, <<>>)
    /\ UNCHANGED <<clock, default_since, events, since, excluded_users>>
    /\ UNCHANGED otherThanContributors

\* ------------------------------------------------ run_process, open_process
Streams == {"stdout", "stderr"}

ChildPrograms == UNION {[1..k -> Streams] : k \in 0..MaxWrites}

\* Variant of task_group_exits for a group that is left as soon as one of its
\* children is done.
task_group_exits_Any(d) == \E s \in Streams : d[s] = "eof"

\* process.py:286-296  the `async with anyio.create_task_group()` block is
\* left normally when both stream_text tasks have returned.
task_group_exits(d) == \A s \in Streams : d[s] = "eof"

\* Variant of shielded_aclose for an `await process.aclose()` outside a
\* shielded scope.
shielded_aclose_Unshielded(was_closed, cancelled) == was_closed \/ ~cancelled

\* process.py:233-234  with anyio.CancelScope(shield=True): await process.aclose()
shielded_aclose(was_closed, cancelled) == TRUE

NoProcess ==
    /\ stream_output = FALSE
    /\ unsupported_sink = FALSE
    /\ child_todo = <<>>
    /\ child_alive = FALSE
    /\ pipe = [s \in Streams |-> 0]
    /\ drain = [s \in Streams |-> "idle"]
    /\ xpc = "idle"
    /\ body_left = "none"
    /\ terminate_sent = FALSE
    /\ closed = FALSE

\* The arguments of the call to come and what the command will write.
InitProcess ==
    /\ stream_output \in BOOLEAN
    /\ unsupported_sink \in IF stream_output THEN BOOLEAN ELSE {FALSE}
    /\ child_todo \in ChildPrograms
    /\ child_alive = FALSE
    /\ pipe = [s \in Streams |-> 0]
    /\ drain = [s \in Streams |-> "idle"]
    /\ xpc = "idle"
    /\ body_left = "none"
    /\ terminate_sent = FALSE
    /\ closed = FALSE

\* process.py:257-262, 196-200  run_process enters open_process, which starts
\* the subprocess with pipes (stream_output) or DEVNULL; with stream_output
\* the body goes on to consume_process_output (271-274), which starts both
\* stream_text tasks (287-296), otherwise to process.wait() (276).
Call_run_process ==
    /\ xpc = "idle"
    /\ child_alive' = TRUE
    /\ xpc' = IF stream_output THEN "consume" ELSE "wait"
    /\ drain' = [s \in Streams |-> IF stream_output THEN "reading" ELSE "idle"]
    /\ UNCHANGED <<stream_output, unsupported_sink, child_todo, pipe, body_left,
                   terminate_sent, closed>>
    /\ UNCHANGED otherThanProcess

\* The subprocess writes its next chunk: into the pipe when there is room, or
\* to DEVNULL (process.py:259-260).
child_write ==
    /\ child_alive
    /\ child_todo # <<>>
    /\ LET s == Head(child_todo)
       IN  IF stream_output
           THEN /\ pipe[s] < PipeCap
                /\ pipe' = [pipe EXCEPT ![s] = @ + 1]
           ELSE UNCHANGED pipe
    /\ child_todo' = Tail(child_todo)
    /\ UNCHANGED <<stream_output, unsupported_sink, child_alive, drain, xpc,
                   body_left, terminate_sent, closed>>
    /\ UNCHANGED otherThanProcess

\* The subprocess ends after its last write; its ends of the pipes close.
child_exit ==
    /\ child_alive
    /\ child_todo = <<>>
    /\ child_alive' = FALSE
    /\ UNCHANGED <<stream_output, unsupported_sink, child_todo, pipe, drain, xpc,
                   body_left, terminate_sent, closed>>
    /\ UNCHANGED otherThanProcess

\* process.py:307-318  stream_text takes one item from its stream and hands it
\* to its sink; a sink of an unsupported type raises TypeError.
stream_text_item(s) ==
    /\ xpc = "consume"
    /\ drain[s] = "reading"
    /\ pipe[s] > 0
    /\ pipe' = [pipe EXCEPT ![s] = @ - 1]
    /\ drain' = IF s = "stderr" /\ unsupported_sink
                THEN [drain EXCEPT ![s] = "raised"]
                ELSE drain
    /\ UNCHANGED <<stream_output, unsupported_sink, child_todo, child_alive, xpc,
                   body_left, terminate_sent, closed>>
    /\ UNCHANGED otherThanProcess

\* process.py:307  `async for item in source` ends: the pipe is empty and the
\* subprocess has closed its end.
stream_text_eof(s) ==
    /\ xpc = "consume"
    /\ drain[s] = "reading"
    /\ pipe[s] = 0
    /\ ~child_alive
    /\ drain' = [drain EXCEPT ![s] = "eof"]
    /\ UNCHANGED <<stream_output, unsupported_sink, child_todo, child_alive, pipe,
                   xpc, body_left, terminate_sent, closed>>
    /\ UNCHANGED otherThanProcess

\* process.py:271-276  consume_process_output returns; run_process goes on to
\* `await process.wait()`.
consume_returns ==
    /\ xpc = "consume"
    /\ task_group_exits(drain)
    /\ xpc' = "wait"
    /\ UNCHANGED <<stream_output, unsupported_sink, child_todo, child_alive, pipe,
                   drain, body_left, terminate_sent, closed>>
    /\ UNCHANGED otherThanProcess

\* process.py:286  a child of the task group raised: the group cancels the
\* other child and raises out of consume_process_output and of the body.
consume_raises ==
    /\ xpc = "consume"
    /\ \E s \in Streams : drain[s] = "raised"
    /\ drain' = [s \in Streams |-> IF drain[s] = "reading" THEN "cancelled" ELSE drain[s]]
    /\ body_left' = "raised"
    /\ xpc' = "aexit"
    /\ UNCHANGED <<stream_output, unsupported_sink, child_todo, child_alive, pipe,
                   terminate_sent, closed>>
    /\ UNCHANGED otherThanProcess

\* process.py:276-278  process.wait() returns once the subprocess has ended,
\* and the body of open_process completes.
process_wait_returns ==
    /\ xpc = "wait"
    /\ ~child_alive
    /\ body_left' = "returned"
    /\ xpc' = "aexit"
    /\ UNCHANGED <<stream_output, unsupported_sink, child_todo, child_alive, pipe,
                   drain, terminate_sent, closed>>
    /\ UNCHANGED otherThanProcess

\* process.py:271-276  the caller is cancelled while the body awaits: the
\* await raises, and so do those of the stream_text tasks.
caller_cancelled ==
    /\ xpc \in {"consume", "wait"}
    /\ drain' = [s \in Streams |-> IF drain[s] = "reading" THEN "cancelled" ELSE drain[s]]
    /\ body_left' = "cancelled"
    /\ xpc' = "aexit"
    /\ UNCHANGED <<stream_output, unsupported_sink, child_todo, child_alive, pipe,
                   terminate_sent, closed>>
    /\ UNCHANGED otherThanProcess

\* process.py:218-219  leaving `async with process` runs the library's
\* Process.aclose: it closes the streams and waits for the subprocess to end.
\* Under cancellation it may be interrupted before either, or kill the
\* subprocess, depending on the library.
process_aexit ==
    /\ xpc = "aexit"
    /\ \E was_closed \in IF body_left = "cancelled" THEN BOOLEAN ELSE {TRUE} :
         \E alive \in IF body_left = "cancelled" THEN {child_alive, FALSE} ELSE {FALSE} :
           /\ closed' = was_closed
           /\ child_alive' = alive
           /\ child_todo' = IF alive THEN child_todo ELSE <<>>
    /\ xpc' = "terminate"
    /\ UNCHANGED <<stream_output, unsupported_sink, pipe, drain, body_left,
                   terminate_sent>>
    /\ UNCHANGED otherThanProcess

\* process.py:221-229  finally: process.terminate(); the OSError of a
\* subprocess that has ended already is swallowed.
finally_terminate ==
    /\ xpc = "terminate"
    /\ terminate_sent' = TRUE
    /\ child_alive' = FALSE
    /\ child_todo' = <<>>
    /\ xpc' = "aclose"
    /\ UNCHANGED <<stream_output, unsupported_sink, pipe, drain, body_left, closed>>
    /\ UNCHANGED otherThanProcess

\* process.py:231-234  the shielded process.aclose(), then the context manager
\* exits (and re-raises what left the body).
finally_aclose ==
    /\ xpc = "aclose"
    /\ closed' = shielded_aclose(closed, body_left = "cancelled")
    /\ xpc' = "exited"
    /\ UNCHANGED <<stream_output, unsupported_sink, child_todo, child_alive, pipe,
                   drain, body_left, terminate_sent>>
    /\ UNCHANGED otherThanProcess

\* ---------------------------------------------------------- EventLogHandler
\* handlers.py:42  the "\n" that joins the messages: one byte that is no
\* message.
Newline == [id |-> 0, size |-> 1]

\* handlers.py:42  "\n".join(self.buffer): the messages with a newline between
\* each two.
RECURSIVE join(_)
join(messages) ==
    IF Len(messages) <= 1 THEN messages
    ELSE <<Head(messages), Newline>> \o join(Tail(messages))

\* Variant of flush that writes the buffer and leaves the counter as it is.
flush_SameFile(h) ==
    IF h.buffer # <<>>
    THEN [buffer |-> <<>>, buffer_size |-> 0, counter |-> h.counter,
          writes |-> Append(h.writes, [k |-> h.counter, content |-> join(h.buffer)])]
    ELSE h

\* handlers.py:38-45  flush, on the fields of the handler and the directory.
flush(h) ==
    IF h.buffer # <<>>
    THEN [buffer |-> <<>>, buffer_size |-> 0, counter |-> h.counter + 1,
          writes |-> Append(h.writes, [k |-> h.counter, content |-> join(h.buffer)])]
    ELSE h

\* handlers.py:17-36  emit of a formatted message of message_size bytes;
\* emit_event (23-33) reports to a service and touches nothing of the handler.
emit(h, message, limit) ==
    LET f == IF h.buffer_size + message.size > limit THEN flush(h) ELSE h
    IN  [f EXCEPT !.buffer = Append(@, message),
                  !.buffer_size = @ + message.size]

\* The fields of the handler and the directory, as one record.
handler == [buffer |-> buffer, buffer_size |-> buffer_size, counter |-> counter,
            writes |-> writes]

NoHandler ==
    /\ max_buffer_size = 0
    /\ buffer = <<>>
    /\ buffer_size = 0
    /\ counter = 0
    /\ writes = <<>>
    /\ emitted = <<>>
    /\ handler_closed = FALSE

\* handlers.py:9-15  __init__, with an empty log directory.
InitHandler ==
    /\ max_buffer_size \in 1..MaxBufferSize
    /\ buffer = <<>>
    /\ buffer_size = 0
    /\ counter = 0
    /\ writes = <<>>
    /\ emitted = <<>>
    /\ handler_closed = FALSE

\* handlers.py:17-36  emit(record): the formatted message is told from the
\* others by its place among the emit calls, and has a size in bytes.
Call_emit ==
    /\ ~handler_closed
    /\ Len(emitted) < MaxEmits
    /\ \E z \in 0..MaxMessageSize :
         LET message == [id |-> Len(emitted) + 1, size |-> z]
             h == emit(handler, message, max_buffer_size)
         IN  /\ buffer' = h.buffer
             /\ buffer_size' = h.buffer_size
             /\ counter' = h.counter
             /\ writes' = h.writes
             /\ emitted' = Append(emitted, message)
    /\ UNCHANGED <<max_buffer_size, handler_closed>>
    /\ UNCHANGED otherThanHandler

\* handlers.py:38-45  flush() called from outside, as logging.shutdown does.
Call_flush ==
    /\ ~handler_closed
    /\ buffer # <<>>
    /\ LET h == flush(handler)
       IN  /\ buffer' = h.buffer
           /\ buffer_size' = h.buffer_size
           /\ counter' = h.counter
           /\ writes' = h.writes
    /\ UNCHANGED <<max_buffer_size, emitted, handler_closed>>
    /\ UNCHANGED otherThanHandler

\* handlers.py:47-49  close()
Call_close ==
    /\ ~handler_closed
    /\ LET h == flush(handler)
       IN  /\ buffer' = h.buffer
           /\ buffer_size' = h.buffer_size
           /\ counter' = h.counter
           /\ writes' = h.writes
    /\ handler_closed' = TRUE
    /\ UNCHANGED <<max_buffer_size, emitted>>
    /\ UNCHANGED otherThanHandler

\* ========================================================= specifications
NextLabels ==
    \/ Call_add_labels_to_issue
    \/ Call_update_labels_on_issue
    \/ update_fetch_issue
    \/ update_delete_label
    \/ update_call_add
    \/ add_get_labels
    \/ add_post_labels
    \/ label_request_fails
    \/ other_label_writer

InitSpecLabels == InitLabels /\ NoIssues /\ NoDirectory /\ NoTags /\ NoPulls /\ NoCommits /\ NoFiles /\ NoParse /\ NoLatest /\ NoReleases /\ NoContributors /\ NoProcess /\ NoHandler

SpecLabels == InitSpecLabels /\ [][NextLabels]_vars

NextIssues ==
    \/ Call_fetch_repo_issues
    \/ fetch_page
    \/ fetch_return
    \/ fetch_page_fails

InitSpecIssues == InitIssues /\ NoLabels /\ NoDirectory /\ NoTags /\ NoPulls /\ NoCommits /\ NoFiles /\ NoParse /\ NoLatest /\ NoReleases /\ NoContributors /\ NoProcess /\ NoHandler

SpecIssues == InitSpecIssues /\ [][NextIssues]_vars

NextDirectory ==
    \/ Call_fetch_directory_structure
    \/ traverse_request
    \/ traverse_request_fails
    \/ traverse_item
    \/ traverse_return

InitSpecDirectory == InitDirectory /\ NoLabels /\ NoIssues /\ NoTags /\ NoPulls /\ NoCommits /\ NoFiles /\ NoParse /\ NoLatest /\ NoReleases /\ NoContributors /\ NoProcess /\ NoHandler

SpecDirectory == InitSpecDirectory /\ [][NextDirectory]_vars

NextTag ==
    \/ Call_create_repo_tag
    \/ tag_get_user
    \/ tag_post_object
    \/ tag_request_fails
    \/ tag_post_ref_created
    \/ tag_post_ref_error

InitSpecTag == InitTag /\ NoLabels /\ NoIssues /\ NoDirectory /\ NoPulls /\ NoCommits /\ NoFiles /\ NoParse /\ NoLatest /\ NoReleases /\ NoContributors /\ NoProcess /\ NoHandler

SpecTag == InitSpecTag /\ [][NextTag]_vars

NextPulls ==
    \/ Call_open_pull_request
    \/ pull_check
    \/ pull_check_fails
    \/ pull_post_created
    \/ pull_post_rejected

InitSpecPulls == InitPulls /\ NoLabels /\ NoIssues /\ NoDirectory /\ NoTags /\ NoCommits /\ NoFiles /\ NoParse /\ NoLatest /\ NoReleases /\ NoContributors /\ NoProcess /\ NoHandler

SpecPulls == InitSpecPulls /\ [][NextPulls]_vars

NextCommits ==
    \/ Call_create_commit
    \/ commit_default_branch
    \/ commit_get_base
    \/ commit_post_objects
    \/ commit_check_branch
    \/ commit_create_ref
    \/ commit_update_ref
    \/ commit_request_fails

InitSpecCommits == InitCommits /\ NoLabels /\ NoIssues /\ NoDirectory /\ NoTags /\ NoPulls /\ NoFiles /\ NoParse /\ NoLatest /\ NoReleases /\ NoContributors /\ NoProcess /\ NoHandler

SpecCommits == InitSpecCommits /\ [][NextCommits]_vars

NextFiles ==
    \/ Call_read_file
    \/ read_get_ok
    \/ read_get_error

InitSpecFiles == InitFiles /\ NoLabels /\ NoIssues /\ NoDirectory /\ NoTags /\ NoPulls /\ NoCommits /\ NoParse /\ NoLatest /\ NoReleases /\ NoContributors /\ NoProcess /\ NoHandler

SpecFiles == InitSpecFiles /\ [][NextFiles]_vars

NextParse ==
    \/ Call_parse_as

InitSpecParse == InitParse /\ NoLabels /\ NoIssues /\ NoDirectory /\ NoTags /\ NoPulls /\ NoCommits /\ NoFiles /\ NoLatest /\ NoReleases /\ NoContributors /\ NoProcess /\ NoHandler

SpecParse == InitSpecParse /\ [][NextParse]_vars

NextLatest ==
    \/ Call_fetch_latest_repo_tag
    \/ Call_fetch_latest_n_repo_tags
    \/ latest_get
    \/ latest_get_fails

InitSpecLatest == InitLatest /\ NoLabels /\ NoIssues /\ NoDirectory /\ NoTags /\ NoPulls /\ NoCommits /\ NoFiles /\ NoParse /\ NoReleases /\ NoContributors /\ NoProcess /\ NoHandler

SpecLatest == InitSpecLatest /\ [][NextLatest]_vars

NextReleases ==
    \/ Call_get_prs_between_releases
    \/ releases_compare
    \/ releases_fetch_pr
    \/ releases_return
    \/ releases_request_fails

InitSpecReleases == InitReleases /\ NoLabels /\ NoIssues /\ NoDirectory /\ NoTags /\ NoPulls /\ NoCommits /\ NoFiles /\ NoParse /\ NoLatest /\ NoContributors /\ NoProcess /\ NoHandler

SpecReleases == InitSpecReleases /\ [][NextReleases]_vars

NextContributors ==
    \/ contributors_tick
    \/ Call_fetch_contributor_data

InitSpecContributors == InitContributors /\ NoLabels /\ NoIssues /\ NoDirectory /\ NoTags /\ NoPulls /\ NoCommits /\ NoFiles /\ NoParse /\ NoLatest /\ NoReleases /\ NoProcess /\ NoHandler

SpecContributors == InitSpecContributors /\ [][NextContributors]_vars

NextProcess ==
    \/ Call_run_process
    \/ child_write
    \/ child_exit
    \/ \E s \in Streams : stream_text_item(s)
    \/ \E s \in Streams : stream_text_eof(s)
    \/ consume_returns
    \/ consume_raises
    \/ process_wait_returns
    \/ caller_cancelled
    \/ process_aexit
    \/ finally_terminate
    \/ finally_aclose

InitSpecProcess == InitProcess /\ NoLabels /\ NoIssues /\ NoDirectory /\ NoTags /\ NoPulls /\ NoCommits /\ NoFiles /\ NoParse /\ NoLatest /\ NoReleases /\ NoContributors /\ NoHandler

SpecProcess == InitSpecProcess /\ [][NextProcess]_vars

NextHandler ==
    \/ Call_emit
    \/ Call_flush
    \/ Call_close

InitSpecHandler == InitHandler /\ NoLabels /\ NoIssues /\ NoDirectory /\ NoTags /\ NoPulls /\ NoCommits /\ NoFiles /\ NoParse /\ NoLatest /\ NoReleases /\ NoContributors /\ NoProcess

SpecHandler == InitSpecHandler /\ [][NextHandler]_vars

\* ================================================================= claims
\* ---------------------------------------------------- claims about labels
Posts(log) == SelectSeq(log, LAMBDA r : r.method = "POST")

\* The running or last call is add_labels_to_issue(L), and the call completed
\* before it was add_labels_to_issue(L) too, which did not raise; nobody else
\* wrote the labels from the start of the first call on.
SecondAddOfSameLabels ==
    /\ lop = "add"
    /\ lprev.op = "add"
    /\ lprev.arg = new_labels
    /\ lprev.ret \in {"True", "False"}
    /\ ~lprev.intf
    /\ ~lintf

\* C1: a call of update_labels_on_issue(B) in which no request failed (it
\* returned) leaves the issue's remote label set exactly equal to B, whatever
\* the label set A the issue held before.
C1_UpdateYieldsTarget ==
    (lop = "update" /\ lpc = "idle" /\ lret = "True" /\ ~lintf)
        => remoteLabels = new_labels

C1_Witness ==
    /\ lop = "update" /\ lpc = "idle" /\ lret = "True" /\ ~lintf
    /\ lstart \ new_labels # {}
    /\ new_labels \ lstart # {}
    /\ remoteLabels = new_labels

\* C2: add_labels_to_issue is idempotent: in the second of two consecutive
\* calls with the same label set the remote label set never changes, no POST
\* is sent, and the call returns False unless its GET fails.
C2_AddIdempotent ==
    SecondAddOfSameLabels =>
        /\ remoteLabels = lstart
        /\ Posts(llog) = <<>>
        /\ lpc # "add_post"
        /\ (lpc = "idle" /\ lret # "raised") => lret = "False"

C2_Witness ==
    /\ SecondAddOfSameLabels
    /\ lprev.ret = "True"
    /\ lpc = "idle"
    /\ lret = "False"
    /\ remoteLabels = lstart

\* C3: add_labels_to_issue returns True iff new_labels minus the issue's
\* current label names is non-empty; when it is non-empty the only POST sent
\* carries exactly that difference (and it is sent when True is returned),
\* and when it is empty no POST is sent.
C3_AddPostsExactlyDelta ==
    (lop = "add" /\ lpc = "idle" /\ lret # "none" /\ ~lintf) =>
        LET delta == new_labels \ lstart
            posts == Posts(llog)
        IN  /\ lret \in {"True", "False"} => (lret = "True" <=> delta # {})
            /\ delta = {} => posts = <<>>
            /\ lret = "True" => posts = <<Req("POST", "labels", delta)>>
            /\ Len(posts) <= 1
            /\ \A i \in 1..Len(posts) : posts[i].body = delta

C3_Witness ==
    /\ lop = "add" /\ lpc = "idle" /\ lret = "True" /\ ~lintf
    /\ lstart \cap new_labels # {}
    /\ Posts(llog) = <<Req("POST", "labels", new_labels \ lstart)>>

\* --------------------------------------- claims about fetch_repo_issues
\* Whether an item is of the kind fetch_type asks for.
Matches(ft, is_pull_request) ==
    \/ ft = "all"
    \/ ft = "pulls" /\ is_pull_request
    \/ ft = "issues" /\ ~is_pull_request

\* The remote's items of the kind asked for, in the remote's order.
MatchingItems ==
    SelectSeq([i \in 1..Len(remoteItems) |-> i],
              LAMBDA i : Matches(fetch_type, remoteItems[i]))

\* C4: fetch_repo_issues returns at most n items, and exactly n whenever the
\* remote holds at least n items matching fetch_type.
C4_AtMostNAndExactlyN ==
    /\ ipc \in {"loop", "done", "raised"} => Len(issues) <= n
    /\ (ipc = "done" /\ Len(MatchingItems) >= n) => Len(issues) = n

C4_Witness ==
    /\ ipc = "done"
    /\ fetch_type = "pulls"
    /\ n = 2
    /\ per_page = 1
    /\ Len(MatchingItems) > n
    /\ Len(remoteItems) > Len(MatchingItems)
    /\ Len(issues) = n

\* C5: when the remote holds m < n matching items, fetch_repo_issues returns
\* exactly those m items, each once, in the remote's order.
C5_FewerThanNReturnsEachOnce ==
    (ipc = "done" /\ Len(MatchingItems) < n) => issues = MatchingItems

\* C6: with fetch_type "pulls" no accumulated item lacks the pull_request
\* marker, with "issues" none carries it, and with "all" no item is skipped.
C6_FilterByMarker ==
    /\ \A k \in 1..Len(issues) :
         /\ fetch_type = "pulls" => remoteItems[issues[k]]
         /\ fetch_type = "issues" => ~remoteItems[issues[k]]
    /\ fetch_type = "all" => iskipped = {}
    /\ \A i \in iskipped : ~Matches(fetch_type, remoteItems[i])

C6_Witness ==
    /\ ipc = "done"
    /\ fetch_type = "pulls"
    /\ issues # <<>>
    /\ iskipped # {}
    /\ \E i \in 1..Len(remoteItems) : remoteItems[i] /\ i \notin iskipped

\* C7: the pagination loop sends a number of page requests bounded by n: at
\* most n pages can add an item, plus one page that ends the loop.
C7_RequestsBoundedByN ==
    irequests <= n + 1

\* ------------------------------- claims about fetch_directory_structure
\* How deep an entry or directory lies under directory_path, counting the
\* entries directly in directory_path as depth 0 (the indentation they are
\* rendered with).
Depth(path) == Len(path) - 1

SecondCreateOfSameTag ==
    /\ tpc = "idle"
    /\ tret.kind # "none"
    /\ tprev.ret.kind = "tag"
    /\ tprev.tag_name = tag_name
    /\ tprev.commit_sha = commit_sha
    /\ ~tprev.fault
    /\ ~tfault

\* C9: create_repo_tag called twice with the same tag name and commit sha
\* succeeds both times: the second call's ref creation is rejected with
\* "Reference already exists", no error reaches the caller, and the returned
\* tag has the same tag name and target commit as the first call's.
C9_CreateTagTwice ==
    SecondCreateOfSameTag =>
        /\ refOutcome = "exists"
        /\ tret.kind = "tag"
        /\ tret.tag = tprev.ret.tag
        /\ tret.object = tprev.ret.object
        /\ tlogged = "Tag already exists"

C9_Witness ==
    /\ SecondCreateOfSameTag
    /\ tprev.refOutcome = "created"
    /\ refOutcome = "exists"
    /\ tret.kind = "tag"
    /\ tret.sha # tprev.ret.sha

\* C10: when the ref-creation request fails with an HTTP error whose message
\* is anything other than "Reference already exists", the error propagates:
\* create_repo_tag returns no tag and does not report the tag as created.
C10_OtherRefErrorPropagates ==
    (tpc = "idle" /\ refOutcome = "other_message") =>
        /\ tret.kind = "raised"
        /\ tlogged # "Tag created"

\* ------------------------------------------- claims about open_pull_request
\* C11: a call of open_pull_request with check_for_existing, made while the
\* remote has an open pull request for the same head and base, never reaches
\* the POST and sends none, and unless its GET fails it returns that existing
\* pull request (not a newly created one); so a POST is sent only when there
\* is no such pull request or check_for_existing is false, and at most once.
C11_ExistingShortCircuits ==
    /\ (check_for_existing /\ pstart) => (pposts = 0 /\ ppc # "post")
    /\ (check_for_existing /\ pstart /\ ppc = "idle" /\ pret.kind # "none")
          => \/ pret = PullOf(head, base, FALSE)
             \/ pret.kind \in {"HTTPStatusError", "JSONDecodeError"}
    /\ pposts <= 1

\* A call with check_for_existing has returned the existing pull request
\* after one GET and no POST, while the same head also has an open pull
\* request for another base.
C11_Witness ==
    /\ ppc = "idle"
    /\ check_for_existing
    /\ pstart
    /\ pret = PullOf(head, base, FALSE)
    /\ pgets = 1
    /\ pposts = 0
    /\ \E k \in remotePulls : k[1] = head /\ k[2] # base

\* The error body says that field head is invalid: the first of its errors
\* is a mapping with field "head" and code "invalid".
SaysHeadInvalid(body) ==
    /\ body.json
    /\ body.has_errors
    /\ body.errors # <<>>
    /\ body.errors[1] = "head_invalid"

\* C12: when the POST of open_pull_request was rejected, the caller received
\* the invalid-head error (ValueError) exactly when the error body says field
\* head is invalid, and for every other rejection, whatever its status and
\* body, the HTTPStatusError itself.
C12_RejectionTranslated ==
    prejection # NoRejection =>
        IF SaysHeadInvalid(prejection.body)
        THEN pret.kind = "ValueError"
        ELSE pret.kind = "HTTPStatusError"

\* ----------------------------------------------- claims about create_commit
\* C13: a create_commit call that returned the commit got exactly one write
\* to refs/heads/<branch> accepted: the ref creation (POST) if create_branch
\* was true and the ref did not exist when the call was made, otherwise the
\* ref update (PATCH); and the ref then points at the new commit.
C13_ExactlyOneRefWrite ==
    cret = "commit" =>
        /\ cwrites = IF create_branch /\ cstart = 0 THEN <<"POST">> ELSE <<"PATCH">>
        /\ remoteBranches[branch] = new_commit_sha

\* C14: every step that moves an existing branch ref to another commit is a
\* fast-forward: the commit the ref pointed at is an ancestor of the commit
\* it points at afterwards.
C14_UpdateIsFastForward ==
    [][\A b \in BranchNames :
          (remoteBranches[b] # 0 /\ remoteBranches'[b] # remoteBranches[b])
             => IsAncestor(parents', remoteBranches[b], remoteBranches'[b])]_vars

\* A call has moved a branch that existed before it, and whose tip was not
\* the tip of the base branch, to the new commit.
C14_Witness ==
    /\ cret = "commit"
    /\ cstart # 0
    /\ cstart # base_tree_sha
    /\ remoteBranches[branch] = new_commit_sha
    /\ new_commit_sha # cstart

\* C15: a create_commit call made without base_branch reads the base tip
\* from refs/heads/<the remote's default branch>.
C15_BaseIsDefaultBranch ==
    ~base_given =>
        /\ cpc \notin {"idle", "default"} => base_branch = DefaultBranch
        /\ base_ref_read # "" => base_ref_read = DefaultBranch

\* ------------------------------ claims about read_file and GHClient.request
\* C16: a read_file call whose request was answered with a non-2xx status and
\* a body that is not valid JSON returned the empty text and raised nothing;
\* one whose request was answered with a 2xx status returned the text of the
\* file.
C16_NonJsonErrorGivesEmpty ==
    (rpc = "idle" /\ rstatus # 0) =>
        /\ (~is_success(rstatus) /\ ~rjson) => rret = [kind |-> "returned", text |-> 0]
        /\ is_success(rstatus) => rret = [kind |-> "returned", text |-> remoteFiles[rbranch]]

\* A read of a file that a branch does not have was answered 404 with a body
\* that is no JSON, and returned the empty text.
C16_Witness ==
    /\ rpc = "idle"
    /\ rbranch \notin DOMAIN remoteFiles
    /\ rstatus = 404
    /\ ~rjson
    /\ rret = [kind |-> "returned", text |-> 0]

\* C17: for every answer with a non-2xx status, whatever its body,
\* GHClient.request raised HTTPStatusError, and whatever it returned as a
\* response had a 2xx status.
C17_NonSuccessRaisesStatusError ==
    rstatus # 0 =>
        /\ ~is_success(rstatus) => routcome = "HTTPStatusError"
        /\ routcome = "response" => is_success(rstatus)

\* ---------------------------------------------------- claims about parse_as
\* C18: parse_as for a list target, applied to a single-key mapping whose
\* value is a list, gave what validating that list itself as the list target
\* gives; and for a set or single-record target a mapping was validated as
\* it is.
C18_UnwrapTransparent ==
    parsed # NotParsed =>
        /\ (type_ = "list" /\ data.tag = "dict" /\ Len(data.entries) = 1
              /\ data.entries[1].tag = "list")
             => parsed = validate("list", data.entries[1])
        /\ (type_ \in {"set", "record"} /\ data.tag = "dict")
             => parsed = validate(type_, data)

\* parse_as for a list target was given a single-key mapping holding a list
\* of two valid elements and gave that list.
C18_Witness ==
    /\ type_ = "list"
    /\ data.tag = "dict"
    /\ Len(data.entries) = 1
    /\ data.entries[1].tag = "list"
    /\ Len(data.entries[1].items) = 2
    /\ parsed = [kind |-> "ok", value |-> data.entries[1]]

\* --------------------------------------- claims about fetch_latest_repo_tag
\* C19: a fetch_latest_repo_tag call whose request was answered returned the
\* most recently created of the remote tags that the pattern matches (of all
\* tags when no pattern was given), and failed with an error when there is no
\* such tag.
C19_LatestMatchingTag ==
    (ltpc = "idle" /\ ltret.kind \in {"ref", "ValueError"}) =>
        LET c == SelectSeq(remoteTagRefs, LAMBDA t : ~tag_pattern \/ t \in tag_matching) IN
          IF c = <<>> THEN ltret.kind = "ValueError"
          ELSE ltret = [kind |-> "ref", name |-> c[Len(c)]]

\* ------------------------------------ claims about get_prs_between_releases
\* The numbers of the pull requests whose merge commit is among the commits
\* compared.
MergedNumbers ==
    {k \in 1..NumPulls :
        \E i \in 1..Len(remoteCompare) :
            /\ Len(remoteCompare[i]) >= 3
            /\ remoteCompare[i][1] = Text("Merge pull request ")
            /\ remoteCompare[i][2] = Text("#")
            /\ remoteCompare[i][3] = Number(k)}

\* C20: get_prs_between_releases never fetches a pull request twice nor one
\* that no merge commit among the compared commits names, it sends one
\* request per pull request fetched besides the comparison, and what it
\* returns holds exactly the pull requests named by the merge commits.
C20_OnePullPerMergedNumber ==
    /\ \A i, j \in 1..Len(prs) : i # j => prs[i] # prs[j]
    /\ \A i \in 1..Len(prs) : prs[i] \in MergedNumbers
    /\ gpc \in {"fetch", "done"} => grequests = 1 + Len(prs)
    /\ gpc = "done" => {prs[i] : i \in 1..Len(prs)} = MergedNumbers

\* The call has returned one pull request although two of the compared
\* commits are its merge commit and a third commit mentions another number.
C20_Witness ==
    /\ gpc = "done"
    /\ Len(prs) = 1
    /\ \E i, j \in 1..Len(remoteCompare) :
         /\ i # j
         /\ remoteCompare[i] = remoteCompare[j]
         /\ is_merge_message(remoteCompare[i])
    /\ \E i \in 1..Len(remoteCompare) :
         /\ ~is_merge_message(remoteCompare[i])
         /\ \E t \in 1..Len(remoteCompare[i]) :
              remoteCompare[i][t].number \notin {0, prs[1]}

\* ------------------------------- further claims about the label operations
\* C23: when no label operation is running, whether the last one returned or
\* raised, no client is open; while one runs, at most its own client and that
\* of the operation it calls are.
C23_NoClientLeftOpen ==
    /\ lpc = "idle" => lclients = 0
    /\ lclients <= 2

\* update_labels_on_issue has raised out of the POST of the
\* add_labels_to_issue it calls, with both clients open, and none is open now.
C23_Witness ==
    /\ lop = "update"
    /\ lpc = "idle"
    /\ lret = "raised"
    /\ llog # <<>>
    /\ llog[Len(llog)].method = "POST"
    /\ lclients = 0

\* C24: a call of update_labels_on_issue that returned, returned True if it
\* added labels to the issue and False if it added none.
C24_UpdateReturnsWhetherAdded ==
    (lop = "update" /\ lpc = "idle" /\ lret \in {"True", "False"} /\ ~lintf)
        => (lret = "True" <=> remoteLabels \ lstart # {})

\* The labels removed by the DELETE requests of a log that were answered:
\* all of them but a last one that failed.
Deleted(log, failed) ==
    {l \in Labels :
        \E i \in 1..(Len(log) - (IF failed THEN 1 ELSE 0)) :
            log[i] = Req("DELETE", "label", {l})}

\* C25: a call of update_labels_on_issue that raised leaves the issue with
\* the labels it had minus those already removed, nothing added; and a
\* further call with the same target that returns leaves exactly the target.
C25_NoRollbackThenConverges ==
    /\ (lop = "update" /\ lpc = "idle" /\ lret = "raised" /\ ~lintf)
          => remoteLabels = lstart \ Deleted(llog, TRUE)
    /\ (lop = "update" /\ lpc = "idle" /\ lret = "True" /\ ~lintf
          /\ lprev.op = "update" /\ lprev.arg = new_labels /\ lprev.ret = "raised")
          => remoteLabels = new_labels

\* A call of update_labels_on_issue raised and left a label set that was
\* neither the target nor complete; the call after it, with the same target,
\* found that set, removed and added labels, and left the target.
C25_Witness ==
    /\ lop = "update" /\ lpc = "idle" /\ lret = "True" /\ ~lintf
    /\ lprev.op = "update" /\ lprev.arg = new_labels /\ lprev.ret = "raised"
    /\ ~lprev.intf
    /\ lstart \ new_labels # {}
    /\ new_labels \ lstart # {}
    /\ remoteLabels = new_labels

\* C26: in a call of update_labels_on_issue that returned, the DELETEs sent
\* are one for each label the issue had that is not in the target, none for
\* a label in the target, all before the POST, and a POST is sent iff the
\* target has labels the issue lacked, carrying exactly those.
C26_DeletesThenOnePost ==
    (lop = "update" /\ lpc = "idle" /\ lret = "True" /\ ~lintf) =>
        LET dels == SelectSeq(llog, LAMBDA r : r.method = "DELETE")
            delta == new_labels \ lstart
        IN  /\ Deleted(llog, FALSE) = lstart \ new_labels
            /\ Len(dels) = Cardinality(lstart \ new_labels)
            /\ \A i, j \in 1..Len(llog) :
                 (llog[i].method = "DELETE" /\ llog[j].method = "POST") => i < j
            /\ Posts(llog) = IF delta = {} THEN <<>> ELSE <<Req("POST", "labels", delta)>>

\* The issue had one label, which is in the target of two labels: the call
\* sent no DELETE and one POST with the other label.
C26_Witness ==
    /\ lop = "update" /\ lpc = "idle" /\ lret = "True" /\ ~lintf
    /\ Cardinality(lstart) = 1
    /\ lstart \subseteq new_labels
    /\ Cardinality(new_labels) = 2
    /\ \A i \in 1..Len(llog) : llog[i].method # "DELETE"
    /\ Posts(llog) = <<Req("POST", "labels", new_labels \ lstart)>>

\* C21: in the result of fetch_contributor_data every item of every bucket
\* comes from an event whose actor is not excluded and that is not older than
\* the cutoff; created_issues holds only opened issue events,
\* created_pull_requests only opened pull-request events, merged_commits only
\* commits of push events whose message has no "Merge"; and every item is
\* filed under the actor of its event.
C21_ItemsAreFiltered ==
    called_at # NoSince =>
      \A a \in DOMAIN contributors_activity :
        LET activity == contributors_activity[a]
            Ok(item) == /\ events[item.event].actor = a
                        /\ a \notin excluded_users
                        /\ events[item.event].created_at >= since_or_default
        IN  /\ \A k \in DOMAIN activity.created_issues :
                 LET item == activity.created_issues[k]
                 IN  /\ Ok(item)
                     /\ events[item.event].kind.type = "IssuesEvent"
                     /\ events[item.event].kind.action = "opened"
            /\ \A k \in DOMAIN activity.created_pull_requests :
                 LET item == activity.created_pull_requests[k]
                 IN  /\ Ok(item)
                     /\ events[item.event].kind.type = "PullRequestEvent"
                     /\ events[item.event].kind.action = "opened"
            /\ \A k \in DOMAIN activity.merged_commits :
                 LET item == activity.merged_commits[k]
                 IN  /\ Ok(item)
                     /\ events[item.event].kind.type = "PushEvent"
                     /\ ~events[item.event].kind.commits[item.commit]

\* A call that skipped an event of an excluded user and kept a pushed commit.
C21_Witness ==
    /\ called_at # NoSince
    /\ \E i \in DOMAIN events : events[i].actor \in excluded_users
    /\ \E a \in DOMAIN contributors_activity :
         contributors_activity[a].merged_commits # <<>>

\* The events of the feed that the result holds an item of.
KeptEvents ==
    {i \in DOMAIN events :
       \E a \in DOMAIN contributors_activity :
         \E b \in {"created_issues", "created_pull_requests", "merged_commits"} :
           \E k \in DOMAIN contributors_activity[a][b] :
             contributors_activity[a][b][k].event = i}

\* The events of the feed that give an item when they are not skipped.
ItemEvents ==
    {i \in DOMAIN events :
       \/ events[i].kind.type \in {"IssuesEvent", "PullRequestEvent"}
            /\ events[i].kind.action = "opened"
       \/ events[i].kind.type = "PushEvent"}

\* C22: a call without since keeps exactly the events created within the day
\* that precedes the call.
C22_DefaultCutoffIsDayBeforeCall ==
    (called_at # NoSince /\ since = NoSince) =>
      \A i \in ItemEvents :
        events[i].actor \notin excluded_users =>
          (i \in KeptEvents <=> events[i].created_at >= called_at - Day)

\* C27: consume_process_output returns, and run_process goes on to wait for
\* the subprocess, only when both streams have been drained to their end;
\* and while the subprocess is blocked on a full pipe during
\* consume_process_output, the task draining that pipe is reading (unless the
\* group is being torn down by a task that raised).
C27_BothDrainedBeforeWait ==
    /\ (stream_output /\ (xpc = "wait" \/ body_left = "returned")) =>
          /\ \A s \in Streams : drain[s] = "eof" /\ pipe[s] = 0
          /\ ~child_alive
    /\ (xpc = "consume" /\ child_alive /\ child_todo # <<>>
          /\ pipe[Head(child_todo)] = PipeCap) =>
          \/ drain[Head(child_todo)] = "reading"
          \/ \E s \in Streams : drain[s] = "raised"

\* Standard output has reached its end while standard error still holds data:
\* consume_process_output has not returned.
C27_Witness ==
    /\ xpc = "consume"
    /\ drain["stdout"] = "eof"
    /\ drain["stderr"] = "reading"
    /\ pipe["stderr"] > 0

\* C28: when the context manager open_process has exited, whichever way its
\* body was left (return, exception, cancellation of the caller), the
\* subprocess was sent terminate and its resources are closed.
C28_TerminatedAndClosedOnExit ==
    xpc = "exited" =>
      /\ body_left \in {"returned", "raised", "cancelled"}
      /\ terminate_sent
      /\ closed
      /\ ~child_alive

\* open_process has exited after the caller was cancelled.
C28_Witness ==
    /\ xpc = "exited"
    /\ body_left = "cancelled"
    /\ terminate_sent
    /\ closed

\* C29: a fetch_latest_n_repo_tags(n) call that returned gave the n most
\* recently created of the remote tags that the pattern matches (of all tags
\* when no pattern was given), or all of them when there are fewer than n.
C29_LatestNMatchingTags ==
    (ltpc = "idle" /\ ltret.kind = "refs") =>
        LET c == SelectSeq(remoteTagRefs, LAMBDA t : ~tag_pattern \/ t \in tag_matching)
        IN  ltrefs = last_n(c, tag_count)

\* --------------------------------------------- claims about EventLogHandler
\* The messages of a file: its content without the newlines between them.
MessagesOf(content) == SelectSeq(content, LAMBDA c : c # Newline)

\* The messages of the files written, read in the order of the writes.
RECURSIVE MessagesWritten(_)
MessagesWritten(ws) ==
    IF ws = <<>> THEN <<>>
    ELSE MessagesOf(Head(ws).content) \o MessagesWritten(Tail(ws))

RECURSIVE TotalSize(_)
TotalSize(messages) ==
    IF messages = <<>> THEN 0 ELSE Head(messages).size + TotalSize(Tail(messages))

\* C30: between the calls on an EventLogHandler, the i-th write went to
\* event_log_<i-1>.log, so no file is written twice and the order of the
\* writes is that of the file numbers; the messages of the files in that
\* order, followed by the buffered ones, are the emitted messages in emit
\* order, each once; after close nothing is left in the buffer; and
\* buffer_size is the total size of the buffered messages.
C30_EachMessageInOneFileInOrder ==
    /\ \A i \in 1..Len(writes) : writes[i].k = i - 1
    /\ counter = Len(writes)
    /\ MessagesWritten(writes) \o buffer = emitted
    /\ handler_closed => buffer = <<>>
    /\ buffer_size = TotalSize(buffer)

\* Three messages were emitted, the handler is closed, and the messages are in
\* more than one file, one of which holds two.
C30_Witness ==
    /\ handler_closed
    /\ Len(emitted) = 3
    /\ Len(writes) = 2

====
